---- MODULE Spec2Model ----
(***************************************************************************)
(* State-machine model of the M5Stack CoreS3 / UNIT_8ENCODER sketch        *)
(* (src/unnamed/part_000): the cooperative loop(), the per-encoder button  *)
(* state machine with its action-dispatch table, the parameter router and  *)
(* the scale/chord engine, with the BLE-MIDI messages each step emits.     *)
(*                                                                         *)
(* One pass of loop() is modelled as LoopBegin (rate limit, touch-to-panic,*)
(* toggle switch) followed by one LoopIteration per encoder i = 0..7 (the  *)
(* body of the for loop, which reads encoder i from the bus and handles    *)
(* it).  loopIdx is the position inside loop().  midiOut holds the MIDI    *)
(* messages sent by the last step and dispatched the button callback the   *)
(* last step selected.                                                     *)
(*                                                                         *)
(* Time: the code only ever uses millis() in differences against a stored  *)
(* time stamp, so the model keeps the differences: pressAge[i] stands for  *)
(* millis() - buttonPressStartTime[i] and touchAge for                     *)
(* millis() - lastTouchPanicMs, both saturated just above the largest      *)
(* threshold they are compared with.                                       *)
(***************************************************************************)
EXTENDS Integers, Sequences, FiniteSets, TLC

\* ------------------------------------------------------------ constants
NUM_ENCODERS == 8
NUM_KEYS == 12
BUTTON_HOLD_TIME == 1000
UPDATE_INTERVAL == 50
SHORT_PRESS_MS == 500
TOUCH_DEBOUNCE_MS == 150
INITIAL_ENCODER_VALUE == 60
ENCODER_FULL_SCALE == 60
MAX_VELOCITY == 127
DEFAULT_OCTAVE == 4
MAX_SCALE_NO == 8
MAX_OCTAVE == 9
MIN_OCTAVE == -1
MAX_CHORD_NOTES == 6

\* ------------------------------------------------------------ bounds
\* A slow pass of loop() (display redraw, bus traffic) is taken to last
\* SlowTicks update intervals; a fast one lasts exactly one.
SlowTicks == 5
\* Number of press edges and of raw encoder steps the user makes in a run.
MaxPresses == 2
MaxTurns == 3
Channels == 0 .. (NUM_ENCODERS - 1)
AgeCap == BUTTON_HOLD_TIME
TouchAgeCap == TOUCH_DEBOUNCE_MS + UPDATE_INTERVAL

Min(a, b) == IF a < b THEN a ELSE b
Abs(a) == IF a < 0 THEN -a ELSE a
\* C integer division (truncation towards zero), b > 0
TruncDiv(a, b) == IF a >= 0 THEN a \div b ELSE -((-a) \div b)
Clamp(v, lo, hi) == IF v < lo THEN lo ELSE IF v > hi THEN hi ELSE v

\* ------------------------------------------------------------ modes
EncoderModes == <<"MODE_DEFAULT", "MODE_SCALE", "MODE_ROOT", "MODE_OCTAVE">>
\* variant: the cycle skips the root mode
NextEncoderMode_Skips(m) ==
  CASE m = "MODE_DEFAULT" -> "MODE_SCALE"
    [] m = "MODE_SCALE" -> "MODE_OCTAVE"
    [] m = "MODE_ROOT" -> "MODE_OCTAVE"
    [] OTHER -> "MODE_DEFAULT"

NextEncoderMode(m) ==
  CASE m = "MODE_DEFAULT" -> "MODE_SCALE"
    [] m = "MODE_SCALE" -> "MODE_ROOT"
    [] m = "MODE_ROOT" -> "MODE_OCTAVE"
    [] OTHER -> "MODE_DEFAULT"

\* enum ChordType, by its integer value
CHORD_TRIAD == 0
CHORD_SEVENTH == 1
CHORD_MINOR_TRIAD == 2
CHORD_MINOR_SEVENTH == 3
CHORD_DIMINISHED == 4
CHORD_DIMINISHED_SEVENTH == 5
CHORD_AUGMENTED == 6

\* ------------------------------------------------------------ dispatch table
\* struct ButtonAction instances: the callbacks are selected by name in
\* the On... operators below; allowsLatch is the struct's flag.
allowsLatch(A) == A \in {"NOTE_KEY", "CHORD_TRIGGER", "ASSIGN_TRIGGER"}

kChordAssignMap == [j \in Channels |-> IF j = 7 THEN "MODE_CYCLE" ELSE "ASSIGN_TRIGGER"]
kDefaultScaleMap == [j \in Channels |-> IF j = 7 THEN "MODE_CYCLE" ELSE "NOTE_KEY"]
kDefaultChordMap ==
  [j \in Channels |-> IF j = 7 THEN "MODE_CYCLE"
                      ELSE IF j \in {0, 1} THEN "CHORD_TRIGGER" ELSE "NOOP"]

initActionMaps == [SCALE_STATE |-> kDefaultScaleMap, CHORD_STATE |-> kDefaultChordMap]

\* ------------------------------------------------------------ scale library
\* intvlFormula[9]: W = 2, H = 1, 3H = 3 semitones
intvlFormula ==
  << <<2, 2, 1, 2, 2, 2, 1>>, <<2, 1, 2, 2, 1, 2, 2>>, <<2, 1, 2, 2, 2, 1, 2>>,
     <<2, 1, 2, 2, 1, 3, 1>>, <<2, 1, 2, 2, 2, 1, 2>>, <<1, 2, 2, 2, 1, 2, 2>>,
     <<2, 2, 2, 1, 2, 2, 1>>, <<2, 2, 1, 2, 2, 1, 2>>, <<1, 2, 2, 1, 2, 2, 2>> >>

RECURSIVE SumFirst(_, _)
SumFirst(seq, n) == IF n = 0 THEN 0 ELSE seq[n] + SumFirst(seq, n - 1)

\* scalemanager.getScaleNote(i) for fundamental f and scale s: the i-th
\* degree offset of the scale table plus the root offset (not reduced mod 12)
getScaleNote(f, s, i) == f + SumFirst(intvlFormula[s + 1], i)

\* The in-scale marks of the twelve keys are cleared and set again from the
\* seven scale notes (a note of 12 or more marks the key one octave below)
MarkKeysInScale(s) ==
  LET marked == {IF getScaleNote(s.fundamental, s.scaleNo, j) < NUM_KEYS
                 THEN getScaleNote(s.fundamental, s.scaleNo, j)
                 ELSE getScaleNote(s.fundamental, s.scaleNo, j) - NUM_KEYS : j \in 0 .. 6}
  IN [s EXCEPT !.key = [k \in 0 .. (NUM_KEYS - 1) |-> [@[k] EXCEPT !.inScale = k \in marked]]]

\* variant: the old fundamental mark is not cleared
MarkFundamental_KeepsOld(s) ==
  [s EXCEPT !.key = [k \in 0 .. (NUM_KEYS - 1) |->
                       [@[k] EXCEPT !.isFundamental = (@ \/ k = s.fundamental)]]]

\* The fundamental mark is cleared on all keys and set on key[fundamental]
MarkFundamental(s) ==
  [s EXCEPT !.key = [k \in 0 .. (NUM_KEYS - 1) |->
                       [@[k] EXCEPT !.isFundamental = (k = s.fundamental)]]]

\* variant: the interval is the plain difference, without the octave wrap
setScaleIntervals_NoWrap(s) ==
  LET notes == [i \in 0 .. 6 |-> getScaleNote(s.fundamental, s.scaleNo, i)]
      s1 == [s EXCEPT !.scaleNoteNo = notes]
      fundKeys == {k \in 0 .. (NUM_KEYS - 1) : s.key[k].isFundamental}
      fundamentalIndex == CHOOSE k \in fundKeys : \A j \in fundKeys : k <= j
      fundNotes == {i \in 0 .. 6 : notes[i] = fundamentalIndex}
      fundamentalScaleIndex == CHOOSE i \in fundNotes : \A j \in fundNotes : i <= j
      interval(i) == notes[(fundamentalScaleIndex + i + 1) % 7]
                       - notes[(fundamentalScaleIndex + i) % 7]
  IN IF fundKeys = {} THEN s1
     ELSE IF fundNotes = {} THEN s1
     ELSE [s1 EXCEPT !.scaleIntervals = [i \in 0 .. 6 |-> interval(i)]]

\* setScaleIntervals: the successive intervals of the scale, starting at the
\* scale note that is the key marked fundamental; it gives up, leaving the
\* intervals as they were, when no key or no scale note is the fundamental
setScaleIntervals(s) ==
  LET notes == [i \in 0 .. 6 |-> getScaleNote(s.fundamental, s.scaleNo, i)]
      s1 == [s EXCEPT !.scaleNoteNo = notes]
      fundKeys == {k \in 0 .. (NUM_KEYS - 1) : s.key[k].isFundamental}
      fundamentalIndex == CHOOSE k \in fundKeys : \A j \in fundKeys : k <= j
      fundNotes == {i \in 0 .. 6 : notes[i] = fundamentalIndex}
      fundamentalScaleIndex == CHOOSE i \in fundNotes : \A j \in fundNotes : i <= j
      interval(i) ==
        LET currentNote == notes[(fundamentalScaleIndex + i) % 7]
            nextNote == notes[(fundamentalScaleIndex + i + 1) % 7]
        IN IF nextNote < currentNote THEN (12 - currentNote) + nextNote
           ELSE nextNote - currentNote
  IN IF fundKeys = {} THEN s1
     ELSE IF fundNotes = {} THEN s1
     ELSE [s1 EXCEPT !.scaleIntervals = [i \in 0 .. 6 |-> interval(i)]]

\* ------------------------------------------------------------ chord engine
\* variant: the major seventh chord gets a minor seventh on top
ChordIntervals_FlatSeventh(type) ==
  CASE type = CHORD_TRIAD -> <<0, 4, 7>>
    [] type = CHORD_MINOR_TRIAD -> <<0, 3, 7>>
    [] type = CHORD_DIMINISHED -> <<0, 3, 6>>
    [] type = CHORD_AUGMENTED -> <<0, 4, 8>>
    [] type = CHORD_SEVENTH -> <<0, 4, 7, 10>>
    [] type = CHORD_MINOR_SEVENTH -> <<0, 3, 7, 10>>
    [] type = CHORD_DIMINISHED_SEVENTH -> <<0, 3, 6, 9>>
    [] OTHER -> <<>>

ChordIntervals(type) ==
  CASE type = CHORD_TRIAD -> <<0, 4, 7>>
    [] type = CHORD_MINOR_TRIAD -> <<0, 3, 7>>
    [] type = CHORD_DIMINISHED -> <<0, 3, 6>>
    [] type = CHORD_AUGMENTED -> <<0, 4, 8>>
    [] type = CHORD_SEVENTH -> <<0, 4, 7, 11>>
    [] type = CHORD_MINOR_SEVENTH -> <<0, 3, 7, 10>>
    [] type = CHORD_DIMINISHED_SEVENTH -> <<0, 3, 6, 9>>
    [] OTHER -> <<>>

\* generateChordForDegree: keeps the type, takes the root from the scale
\* variant: the chord notes are not reduced to pitch classes
generateChordForDegree_Unwrapped(s, degree) ==
  IF degree < 0 \/ degree > 6 THEN s
  ELSE LET absoluteRoot == getScaleNote(s.fundamental, s.scaleNo, degree) % 12
           iv == ChordIntervals(s.currentChord.type)
       IN [s EXCEPT !.currentChordDegree = degree,
                    !.currentChord =
                       [type |-> s.currentChord.type,
                        rootNote |-> absoluteRoot,
                        scaleDegree |-> 0,
                        notes |-> [k \in 1 .. Len(iv) |-> absoluteRoot + iv[k]],
                        noteCount |-> Len(iv)]]

generateChordForDegree(s, degree) ==
  IF degree < 0 \/ degree > 6 THEN s
  ELSE LET absoluteRoot == getScaleNote(s.fundamental, s.scaleNo, degree) % 12
           iv == ChordIntervals(s.currentChord.type)
       IN [s EXCEPT !.currentChordDegree = degree,
                    !.currentChord =
                       [type |-> s.currentChord.type,
                        rootNote |-> absoluteRoot,
                        scaleDegree |-> 0,
                        notes |-> [k \in 1 .. Len(iv) |-> (absoluteRoot + iv[k]) % 12],
                        noteCount |-> Len(iv)]]

\* variant: the recomputation falls back to the major triad
updateCurrentChord_ResetsType(s) ==
  generateChordForDegree([s EXCEPT !.currentChord.type = CHORD_TRIAD], s.currentChordDegree)

updateCurrentChord(s) == generateChordForDegree(s, s.currentChordDegree)

\* variant: the degree stops at the ends of its range
selectChordByDegree_Clamped(s, degree) ==
  LET d == Clamp(degree, 0, 6)
  IN generateChordForDegree([s EXCEPT !.currentChordDegree = d], d)

selectChordByDegree(s, degree) ==
  LET d == IF degree < 0 THEN 6 ELSE IF degree > 6 THEN 0 ELSE degree
  IN generateChordForDegree([s EXCEPT !.currentChordDegree = d], d)

changeChordType(s, newType) ==
  generateChordForDegree([s EXCEPT !.currentChord.type = newType], s.currentChordDegree)

\* variant: the two gaps are looked at in the wrong order
determineDiatonicTriadForDegree_Swapped(s, degree) ==
  LET d0 == degree % 7
      pc0 == getScaleNote(s.fundamental, s.scaleNo, d0) % 12
      pc1 == getScaleNote(s.fundamental, s.scaleNo, (d0 + 2) % 7) % 12
      pc2 == getScaleNote(s.fundamental, s.scaleNo, (d0 + 4) % 7) % 12
      i1 == (pc1 - pc0 + 12) % 12
      i2 == (pc2 - pc1 + 12) % 12
  IN CASE i2 = 4 /\ i1 = 3 -> CHORD_TRIAD
       [] i2 = 3 /\ i1 = 4 -> CHORD_MINOR_TRIAD
       [] i2 = 3 /\ i1 = 3 -> CHORD_DIMINISHED
       [] i2 = 4 /\ i1 = 4 -> CHORD_AUGMENTED
       [] OTHER -> CHORD_TRIAD

determineDiatonicTriadForDegree(s, degree) ==
  LET d0 == degree % 7
      pc0 == getScaleNote(s.fundamental, s.scaleNo, d0) % 12
      pc1 == getScaleNote(s.fundamental, s.scaleNo, (d0 + 2) % 7) % 12
      pc2 == getScaleNote(s.fundamental, s.scaleNo, (d0 + 4) % 7) % 12
      i1 == (pc1 - pc0 + 12) % 12
      i2 == (pc2 - pc1 + 12) % 12
  IN CASE i1 = 4 /\ i2 = 3 -> CHORD_TRIAD
       [] i1 = 3 /\ i2 = 4 -> CHORD_MINOR_TRIAD
       [] i1 = 3 /\ i2 = 3 -> CHORD_DIMINISHED
       [] i1 = 4 /\ i2 = 4 -> CHORD_AUGMENTED
       [] OTHER -> CHORD_TRIAD

\* variant: every slot is bound to the first degree
initAssignSlotsDefaults_AllFirst(s) == [s EXCEPT !.assignSlots = [i \in 0 .. 6 |-> 0]]

initAssignSlotsDefaults(s) == [s EXCEPT !.assignSlots = [i \in 0 .. 6 |-> i]]

\* variant: the chord row is left as it is when the sub-mode changes
applyChordSubModeMapping_Skipped(s) == s

applyChordSubModeMapping(s) ==
  [s EXCEPT !.actionMap.CHORD_STATE =
     IF s.chordSubMode = "CHORD_ASSIGN" THEN kChordAssignMap ELSE kDefaultChordMap]

\* ------------------------------------------------------------ MIDI helpers
NoteOnMsg(n, v) == [t |-> "on", n |-> n, v |-> v]
NoteOffMsg(n) == [t |-> "off", n |-> n, v |-> 0]
ControlChangeMsg(cc) == [t |-> "cc", n |-> cc, v |-> 0]
Send(s, msgs) == [s EXCEPT !.midiOut = @ \o msgs]

\* MIDI note of a pitch class in a given octave (C4 = 60), clamped to 0..127
midiInOctave(pitchClass, oct) == Clamp((pitchClass % 12) + ((oct + 1) * 12), 0, 127)
midiFromPitchClass(s, pitchClass) == midiInOctave(pitchClass, s.currentOctave)

getEncoderMidiNote(s, encoderIndex) ==
  IF encoderIndex > 6 THEN 0
  ELSE LET raw == getScaleNote(s.fundamental, s.scaleNo, encoderIndex)
           scaleNote == IF raw >= 12 THEN raw - 12 ELSE raw
       IN Clamp(scaleNote + ((s.currentOctave + 1) * 12), 0, 127)

getEncoderVelocity(s, encoderIndex) ==
  IF encoderIndex > 6 THEN 100 ELSE s.encoderVelocity[encoderIndex]

ChordCount(s) == Min(s.currentChord.noteCount, MAX_CHORD_NOTES)

sendCurrentChordNoteOn(s, velocity) ==
  IF ~s.bleMidiConnected THEN s
  ELSE [Send(s, [k \in 1 .. ChordCount(s) |->
                   NoteOnMsg(midiFromPitchClass(s, s.currentChord.notes[k]), velocity)])
          EXCEPT !.chordPlaying = TRUE]

sendCurrentChordNoteOff(s) ==
  IF ~s.bleMidiConnected THEN s
  ELSE [Send(s, [k \in 1 .. ChordCount(s) |->
                   NoteOffMsg(midiFromPitchClass(s, s.currentChord.notes[k]))])
          EXCEPT !.chordPlaying = FALSE]

\* variant: the controller burst is sent without looking at the connection
panicAllNotesOff_Unconditional(s) ==
  Send(s, <<ControlChangeMsg(64), ControlChangeMsg(123), ControlChangeMsg(120)>>)

panicAllNotesOff(s) ==
  IF ~s.bleMidiConnected THEN s
  ELSE Send(s, <<ControlChangeMsg(64), ControlChangeMsg(123), ControlChangeMsg(120)>>)

\* ------------------------------------------------------------ button helpers
\* setButtonVisual: only its effect on enc[i].shortPress is state of the model
setButtonVisual(s, i, state) ==
  [s EXCEPT !.enc[i].shortPress = (state = "VIS_SHORT_RED40")]

btnStartPress(s, i) ==
  setButtonVisual([s EXCEPT !.pressAge[i] = 0, !.buttonHoldProcessed[i] = FALSE],
                  i, "VIS_SHORT_RED40")

\* variant: latching leaves the short-press flag as it is
btnLatchHold_KeepsShortPress(s, i) ==
  [s EXCEPT !.enc[i].isActive = TRUE,
            !.waitingForNextPress[i] = TRUE,
            !.buttonHoldProcessed[i] = TRUE]

btnLatchHold(s, i) ==
  setButtonVisual([s EXCEPT !.enc[i].isActive = TRUE,
                            !.enc[i].shortPress = FALSE,
                            !.waitingForNextPress[i] = TRUE,
                            !.buttonHoldProcessed[i] = TRUE],
                  i, "VIS_LATCH_YELLOW")

\* variant: unlatching forgets to clear the active flag
btnUnlatchOnPress_StaysActive(s, i) ==
  setButtonVisual([s EXCEPT !.enc[i].shortPress = FALSE,
                            !.waitingForNextPress[i] = FALSE,
                            !.buttonHoldProcessed[i] = TRUE],
                  i, "VIS_IDLE_OFF")

btnUnlatchOnPress(s, i) ==
  setButtonVisual([s EXCEPT !.enc[i].isActive = FALSE,
                            !.enc[i].shortPress = FALSE,
                            !.waitingForNextPress[i] = FALSE,
                            !.buttonHoldProcessed[i] = TRUE],
                  i, "VIS_IDLE_OFF")

btnReleaseShort(s, i) ==
  [setButtonVisual([s EXCEPT !.enc[i].shortPress = FALSE], i, "VIS_IDLE_OFF")
     EXCEPT !.buttonHoldProcessed[i] = FALSE]

\* variant: the chord channel is cleared but keeps waiting for its next press
handlePanicResetChordIfLatched_KeepsWaiting(s) ==
  IF s.currentMode = "CHORD_STATE" /\ s.enc[6].isActive
  THEN LET s1 == IF s.bleMidiConnected THEN sendCurrentChordNoteOff(s) ELSE s
       IN [s1 EXCEPT !.chordPlaying = FALSE, !.enc[6].isActive = FALSE,
                     !.enc[6].shortPress = FALSE, !.buttonHoldProcessed[6] = TRUE]
  ELSE s

handlePanicResetChordIfLatched(s) ==
  IF s.currentMode = "CHORD_STATE" /\ s.enc[6].isActive
  THEN LET s1 == IF s.bleMidiConnected THEN sendCurrentChordNoteOff(s) ELSE s
       IN btnUnlatchOnPress([s1 EXCEPT !.chordPlaying = FALSE], 6)
  ELSE s

\* variant: only the Latched channels are cleared
clearAllEncoderLatchesAndVisuals_LatchedOnly(s) ==
  [s EXCEPT
     !.enc = [i \in Channels |->
                IF s.enc[i].isActive THEN [isActive |-> FALSE, shortPress |-> FALSE]
                ELSE s.enc[i]],
     !.waitingForNextPress = [i \in Channels |-> IF s.enc[i].isActive THEN FALSE ELSE @[i]],
     !.buttonHoldProcessed = [i \in Channels |-> IF s.enc[i].isActive THEN TRUE ELSE @[i]]]

clearAllEncoderLatchesAndVisuals(s) ==
  LET hit(i) == s.enc[i].isActive \/ s.enc[i].shortPress
  IN [s EXCEPT
        !.enc = [i \in Channels |->
                   IF hit(i) THEN [isActive |-> FALSE, shortPress |-> FALSE] ELSE s.enc[i]],
        !.waitingForNextPress = [i \in Channels |-> IF hit(i) THEN FALSE ELSE @[i]],
        !.buttonHoldProcessed = [i \in Channels |-> IF hit(i) THEN TRUE ELSE @[i]]]

\* ------------------------------------------------------------ action handlers
\* The file-scope currentSwitchState read by the act_note_* handlers is
\* never assigned: loop() declares a local of the same name.
globalCurrentSwitchState == FALSE
sendsMidi(i) == ~globalCurrentSwitchState /\ i <= 6

\* variant: the note is sent without looking at the connection
act_note_onPressStart_Unguarded(s, i) ==
  LET s1 == btnStartPress(s, i)
  IN IF sendsMidi(i)
     THEN Send(s1, <<NoteOnMsg(getEncoderMidiNote(s1, i), getEncoderVelocity(s1, i))>>)
     ELSE s1

act_note_onPressStart(s, i) ==
  LET s1 == btnStartPress(s, i)
  IN IF s1.bleMidiConnected /\ sendsMidi(i)
     THEN Send(s1, <<NoteOnMsg(getEncoderMidiNote(s1, i), getEncoderVelocity(s1, i))>>)
     ELSE s1

act_note_onPressWhileLatched(s, i) ==
  LET s1 == IF s.bleMidiConnected /\ sendsMidi(i)
            THEN Send(s, <<NoteOffMsg(getEncoderMidiNote(s, i))>>)
            ELSE s
  IN btnUnlatchOnPress(s1, i)

act_note_onHold(s, i) == btnLatchHold(s, i)

\* variant: a momentary key, every release stops the note and idles the channel
act_note_onReleaseShort_Momentary(s, i) ==
  LET s1 == IF s.bleMidiConnected /\ sendsMidi(i)
            THEN Send(s, <<NoteOffMsg(getEncoderMidiNote(s, i))>>)
            ELSE s
  IN [btnReleaseShort(s1, i) EXCEPT !.enc[i].isActive = FALSE,
                                    !.waitingForNextPress[i] = FALSE]

act_note_onReleaseShort(s, i) ==
  IF ~s.enc[i].isActive /\ ~s.buttonHoldProcessed[i]
  THEN LET s1 == IF s.bleMidiConnected /\ sendsMidi(i)
                 THEN Send(s, <<NoteOffMsg(getEncoderMidiNote(s, i))>>)
                 ELSE s
       IN btnReleaseShort(s1, i)
  ELSE s

\* variant: without the BLE link the press of a chord trigger is not started
act_chord_onPressStart_NeedsLink(s, i) ==
  IF ~s.bleMidiConnected THEN s
  ELSE IF s.enc[i].isActive
  THEN btnUnlatchOnPress(sendCurrentChordNoteOff(s), i)
  ELSE btnStartPress(sendCurrentChordNoteOn(s, getEncoderVelocity(s, 6)), i)

act_chord_onPressStart(s, i) ==
  IF s.enc[i].isActive
  THEN btnUnlatchOnPress(IF s.bleMidiConnected THEN sendCurrentChordNoteOff(s) ELSE s, i)
  ELSE btnStartPress(IF s.bleMidiConnected
                     THEN sendCurrentChordNoteOn(s, getEncoderVelocity(s, 6))
                     ELSE s, i)

act_chord_onReleaseShort(s, i) ==
  IF ~s.enc[i].isActive /\ ~s.buttonHoldProcessed[i]
  THEN btnReleaseShort(IF s.bleMidiConnected THEN sendCurrentChordNoteOff(s) ELSE s, i)
  ELSE s

act_chord_onHold(s, i) == btnLatchHold(s, i)
act_chord_onPressWhileLatched(s, i) == act_chord_onPressStart(s, i)

act_panic_onPressStart(s, i) ==
  setButtonVisual(btnStartPress(handlePanicResetChordIfLatched(panicAllNotesOff(s)), i),
                  i, "VIS_SHORT_RED40")
act_panic_onReleaseShort(s, i) == btnReleaseShort(s, i)

\* variant: the trigger keeps the chord type that was selected before
act_assign_onPressStart_KeepsType(s, i) ==
  IF s.enc[i].isActive
  THEN btnUnlatchOnPress(IF s.bleMidiConnected THEN sendCurrentChordNoteOff(s) ELSE s, i)
  ELSE LET d == IF i <= 6 THEN s.assignSlots[i] ELSE 0
           s1 == selectChordByDegree(s, d)
           s2 == IF s1.bleMidiConnected
                 THEN sendCurrentChordNoteOn(s1, getEncoderVelocity(s1, IF i <= 6 THEN i ELSE 6))
                 ELSE s1
       IN btnStartPress(s2, i)

act_assign_onPressStart(s, i) ==
  IF s.enc[i].isActive
  THEN btnUnlatchOnPress(IF s.bleMidiConnected THEN sendCurrentChordNoteOff(s) ELSE s, i)
  ELSE LET d == IF i <= 6 THEN s.assignSlots[i] ELSE 0
           t == determineDiatonicTriadForDegree(s, d)
           s1 == selectChordByDegree([s EXCEPT !.currentChord.type = t], d)
           s2 == IF s1.bleMidiConnected
                 THEN sendCurrentChordNoteOn(s1, getEncoderVelocity(s1, IF i <= 6 THEN i ELSE 6))
                 ELSE s1
       IN btnStartPress(s2, i)

act_assign_onReleaseShort(s, i) ==
  IF ~s.enc[i].isActive /\ ~s.buttonHoldProcessed[i]
  THEN btnReleaseShort(IF s.bleMidiConnected THEN sendCurrentChordNoteOff(s) ELSE s, i)
  ELSE s

act_assign_onHold(s, i) == btnLatchHold(s, i)
act_assign_onPressWhileLatched(s, i) == act_assign_onPressStart(s, i)

act_mode_onPressStart(s, i) ==
  [s EXCEPT !.pressAge[i] = 0, !.enc[i].shortPress = TRUE, !.buttonHoldProcessed[i] = FALSE]

ToggleChordSubMode(s) ==
  LET s1 == [s EXCEPT !.chordSubMode =
                IF s.chordSubMode = "CHORD_NORMAL" THEN "CHORD_ASSIGN" ELSE "CHORD_NORMAL"]
      s2 == IF s1.chordSubMode = "CHORD_ASSIGN" THEN initAssignSlotsDefaults(s1) ELSE s1
  IN applyChordSubModeMapping(s2)

\* variant: the release handler does not look at the hold-processed flag
act_mode_onReleaseShort_IgnoresHoldFlag(s, i) ==
  LET pressDuration == s.pressAge[i]
      s1 == IF pressDuration < SHORT_PRESS_MS
            THEN [s EXCEPT !.encoder7Mode = NextEncoderMode(s.encoder7Mode)]
            ELSE IF pressDuration >= BUTTON_HOLD_TIME /\ s.currentMode = "CHORD_STATE"
            THEN ToggleChordSubMode(s)
            ELSE s
  IN [s1 EXCEPT !.enc[i].shortPress = FALSE, !.buttonHoldProcessed[i] = FALSE]

act_mode_onReleaseShort(s, i) ==
  LET pressDuration == s.pressAge[i]
  IN IF s.buttonHoldProcessed[i] THEN [s EXCEPT !.enc[i].shortPress = FALSE]
     ELSE LET s1 == IF pressDuration < SHORT_PRESS_MS
                    THEN [s EXCEPT !.encoder7Mode = NextEncoderMode(s.encoder7Mode)]
                    ELSE IF pressDuration >= BUTTON_HOLD_TIME /\ s.currentMode = "CHORD_STATE"
                    THEN ToggleChordSubMode(s)
                    ELSE s
          IN [s1 EXCEPT !.enc[i].shortPress = FALSE, !.buttonHoldProcessed[i] = FALSE]

\* variant: the hold of the mode button also latches it
act_mode_onHold_Latches(s, i) ==
  btnLatchHold(IF i = 7 /\ s.currentMode = "CHORD_STATE" THEN ToggleChordSubMode(s) ELSE s, i)

act_mode_onHold(s, i) ==
  IF i = 7 /\ s.currentMode = "CHORD_STATE" THEN ToggleChordSubMode(s) ELSE s

\* The four callback slots of struct ButtonAction (a null slot does nothing)
onPressStart(s, A, i) ==
  CASE A = "NOTE_KEY" -> act_note_onPressStart(s, i)
    [] A = "CHORD_TRIGGER" -> act_chord_onPressStart(s, i)
    [] A = "PANIC" -> act_panic_onPressStart(s, i)
    [] A = "MODE_CYCLE" -> act_mode_onPressStart(s, i)
    [] A = "ASSIGN_TRIGGER" -> act_assign_onPressStart(s, i)
    [] OTHER -> s

onReleaseShort(s, A, i) ==
  CASE A = "NOTE_KEY" -> act_note_onReleaseShort(s, i)
    [] A = "CHORD_TRIGGER" -> act_chord_onReleaseShort(s, i)
    [] A = "PANIC" -> act_panic_onReleaseShort(s, i)
    [] A = "MODE_CYCLE" -> act_mode_onReleaseShort(s, i)
    [] A = "ASSIGN_TRIGGER" -> act_assign_onReleaseShort(s, i)
    [] OTHER -> s

onHold(s, A, i) ==
  CASE A = "NOTE_KEY" -> act_note_onHold(s, i)
    [] A = "CHORD_TRIGGER" -> act_chord_onHold(s, i)
    [] A = "MODE_CYCLE" -> act_mode_onHold(s, i)
    [] A = "ASSIGN_TRIGGER" -> act_assign_onHold(s, i)
    [] OTHER -> s

onPressWhileLatched(s, A, i) ==
  CASE A = "NOTE_KEY" -> act_note_onPressWhileLatched(s, i)
    [] A = "CHORD_TRIGGER" -> act_chord_onPressWhileLatched(s, i)
    [] A = "ASSIGN_TRIGGER" -> act_assign_onPressWhileLatched(s, i)
    [] OTHER -> s

\* ------------------------------------------------------------ parameter router
Sign(cur, last) == IF cur > last THEN 1 ELSE -1
WrapStep(v, change, lo, hi) ==
  IF v + change > hi THEN lo ELSE IF v + change < lo THEN hi ELSE v + change

PrevNoteOffs(s, oct) ==
  [k \in 1 .. ChordCount(s) |-> NoteOffMsg(midiInOctave(s.currentChord.notes[k], oct))]

\* case MODE_SCALE of handleEncoderValueChange
ScaleChange(s, change) ==
  updateCurrentChord(setScaleIntervals(MarkKeysInScale(
    [s EXCEPT !.scaleNo = WrapStep(s.scaleNo, change, 0, MAX_SCALE_NO)])))

\* variant: the root stops at the ends of its range
RootChange_Clamped(s, change) ==
  LET s1 == updateCurrentChord(setScaleIntervals(MarkKeysInScale(MarkFundamental(
              [s EXCEPT !.fundamental = Clamp(s.fundamental + change, 0, NUM_KEYS - 1)]))))
  IN IF s1.currentMode = "CHORD_STATE" /\ s1.enc[6].isActive /\ s1.bleMidiConnected
     THEN sendCurrentChordNoteOn(Send(s1, PrevNoteOffs(s, s1.currentOctave)),
                                 getEncoderVelocity(s1, 6))
     ELSE s1

\* case MODE_ROOT of handleEncoderValueChange
RootChange(s, change) ==
  LET s1 == updateCurrentChord(setScaleIntervals(MarkKeysInScale(MarkFundamental(
              [s EXCEPT !.fundamental = WrapStep(s.fundamental, change, 0, NUM_KEYS - 1)]))))
  IN IF s1.currentMode = "CHORD_STATE" /\ s1.enc[6].isActive /\ s1.bleMidiConnected
     THEN sendCurrentChordNoteOn(Send(s1, PrevNoteOffs(s, s1.currentOctave)),
                                 getEncoderVelocity(s1, 6))
     ELSE s1

\* variant: the octave is not wrapped
OctaveChange_NoWrap(s, change) ==
  LET s1 == [s EXCEPT !.currentOctave = s.currentOctave + change]
  IN IF s1.currentMode = "CHORD_STATE" /\ s1.enc[6].isActive /\ s1.bleMidiConnected
     THEN sendCurrentChordNoteOn(Send(s1, PrevNoteOffs(s, s.currentOctave)),
                                 getEncoderVelocity(s1, 6))
     ELSE s1

\* case MODE_OCTAVE of handleEncoderValueChange
OctaveChange(s, change) ==
  LET s1 == [s EXCEPT !.currentOctave = WrapStep(s.currentOctave, change, MIN_OCTAVE, MAX_OCTAVE)]
  IN IF s1.currentMode = "CHORD_STATE" /\ s1.enc[6].isActive /\ s1.bleMidiConnected
     THEN sendCurrentChordNoteOn(Send(s1, PrevNoteOffs(s, s.currentOctave)),
                                 getEncoderVelocity(s1, 6))
     ELSE s1

\* variant: the raw accumulator is passed on as the change
ParameterChange_Unscaled(s, change) ==
  CASE s.encoder7Mode = "MODE_SCALE" -> ScaleChange(s, 2 * change)
    [] s.encoder7Mode = "MODE_ROOT" -> RootChange(s, 2 * change)
    [] s.encoder7Mode = "MODE_OCTAVE" -> OctaveChange(s, 2 * change)
    [] OTHER -> s

ParameterChange(s, change) ==
  CASE s.encoder7Mode = "MODE_SCALE" -> ScaleChange(s, change)
    [] s.encoder7Mode = "MODE_ROOT" -> RootChange(s, change)
    [] s.encoder7Mode = "MODE_OCTAVE" -> OctaveChange(s, change)
    [] OTHER -> s

\* variant: the mapped velocity is not limited to the MIDI range
CounterVelocity_Unclamped(currentValue) ==
  TruncDiv(currentValue * MAX_VELOCITY, ENCODER_FULL_SCALE)

\* handleEncoderValueChange: the velocity mapped from a counter value
CounterVelocity(currentValue) ==
  Clamp(TruncDiv(currentValue * MAX_VELOCITY, ENCODER_FULL_SCALE), 0, MAX_VELOCITY)

handleEncoderValueChange(s, encoderIndex, currentValue, currentSwitchState) ==
  LET s0 == [s EXCEPT !.lastEncoderValues[encoderIndex] = currentValue]
  IN IF ~currentSwitchState /\ encoderIndex <= 6
     THEN [s0 EXCEPT !.encoderVelocity[encoderIndex] = CounterVelocity(currentValue)]
     ELSE IF encoderIndex = 7
     THEN IF ~s0.encoderInitialized
          THEN [s0 EXCEPT !.encoder8LastValue = currentValue, !.encoderInitialized = TRUE]
          ELSE LET delta == IF currentValue # s0.encoder8LastValue
                            THEN Sign(currentValue, s0.encoder8LastValue) ELSE 0
                   acc == s0.stepAccumulator + delta
                   s1 == IF s0.encoder7Mode # "MODE_DEFAULT" /\ delta # 0
                         THEN IF Abs(acc) >= 2
                              THEN ParameterChange([s0 EXCEPT !.stepAccumulator = 0],
                                                   TruncDiv(acc, 2))
                              ELSE [s0 EXCEPT !.stepAccumulator = acc]
                         ELSE s0
               IN [s1 EXCEPT !.encoder8LastValue = currentValue]
     ELSE s0

\* loop(): revoicing after a chord degree / chord type change
Retrigger(sOld, sNew) ==
  IF sNew.bleMidiConnected /\ sNew.chordPlaying
  THEN sendCurrentChordNoteOn(Send(sNew, PrevNoteOffs(sOld, sNew.currentOctave)),
                              getEncoderVelocity(sNew, 6))
  ELSE sNew

\* loop(): encoder 0 selects the chord degree in CHORD_STATE / CHORD_NORMAL
ChordDegreeRotation(s, i, stableValue) ==
  IF i = 0 /\ s.currentMode = "CHORD_STATE" /\ s.chordSubMode = "CHORD_NORMAL"
     /\ stableValue # s.lastEncoder0Value
  THEN LET acc == s.chordStepAccumulator + Sign(stableValue, s.lastEncoder0Value)
           s0 == [s EXCEPT !.lastEncoder0Value = stableValue]
       IN IF Abs(acc) >= 2
          THEN LET s1 == [s0 EXCEPT !.chordStepAccumulator = 0]
               IN Retrigger(s1, selectChordByDegree(s1, s1.currentChordDegree + TruncDiv(acc, 2)))
          ELSE [s0 EXCEPT !.chordStepAccumulator = acc]
  ELSE s

\* loop(): encoder 1 selects the chord type in CHORD_STATE / CHORD_NORMAL
ChordTypeRotation(s, i, stableValue) ==
  IF i = 1 /\ s.currentMode = "CHORD_STATE" /\ s.chordSubMode = "CHORD_NORMAL"
     /\ stableValue # s.lastEncoder1Value
  THEN LET acc == s.typeStepAccumulator + Sign(stableValue, s.lastEncoder1Value)
           s0 == [s EXCEPT !.lastEncoder1Value = stableValue]
       IN IF Abs(acc) >= 2
          THEN LET s1 == [s0 EXCEPT !.typeStepAccumulator = 0]
                   n == s1.currentChord.type + TruncDiv(acc, 2)
                   newTypeIndex == IF n > 6 THEN 0 ELSE IF n < 0 THEN 6 ELSE n
               IN Retrigger(s1, changeChordType(s1, newTypeIndex))
          ELSE [s0 EXCEPT !.typeStepAccumulator = acc]
  ELSE s

\* loop(): assign-mode degree rotation per encoder 0..6
AssignRotation(s, i, stableValue) ==
  IF s.currentMode = "CHORD_STATE" /\ s.chordSubMode = "CHORD_ASSIGN" /\ i <= 6
     /\ stableValue # s.lastAssignVal[i]
  THEN LET a == s.acc[i] + Sign(stableValue, s.lastAssignVal[i])
           s0 == [s EXCEPT !.lastAssignVal[i] = stableValue]
       IN IF Abs(a) >= 2
          THEN [s0 EXCEPT !.acc[i] = 0,
                          !.assignSlots[i] = (s.assignSlots[i] + TruncDiv(a, 2)) % 7]
          ELSE [s0 EXCEPT !.acc[i] = a]
  ELSE s

\* ------------------------------------------------------------ button handling
NoDispatch == [ch |-> -1, ev |-> "none", act |-> "NOOP"]
Dispatch(s, i, ev, A) == [s EXCEPT !.dispatched = [ch |-> i, ev |-> ev, act |-> A]]

\* loop(): HANDLE BUTTON PRESS/HOLD/RELEASE for encoder i
\* variant: the hold of control 7 is not marked as processed
ButtonHandling_HoldNotMarked(s, i, buttonPressed) ==
  LET A == s.actionMap[s.currentMode][i]
      was == s.buttonWasPressed[i]
      s1 ==
        IF buttonPressed /\ ~was
        THEN IF s.enc[i].isActive /\ s.waitingForNextPress[i]
             THEN onPressWhileLatched(Dispatch(s, i, "onPressWhileLatched", A), A, i)
             ELSE onPressStart(Dispatch(s, i, "onPressStart", A), A, i)
        ELSE IF ~buttonPressed /\ was
        THEN onReleaseShort(Dispatch(s, i, "onReleaseShort", A), A, i)
        ELSE IF buttonPressed /\ was /\ ~s.buttonHoldProcessed[i] /\ ~s.enc[i].isActive
        THEN IF s.pressAge[i] >= BUTTON_HOLD_TIME
             THEN LET h == onHold(Dispatch(s, i, "onHold", A), A, i)
                  IN h
             ELSE s
        ELSE s
  IN [s1 EXCEPT !.buttonWasPressed[i] = buttonPressed]

ButtonHandling(s, i, buttonPressed) ==
  LET A == s.actionMap[s.currentMode][i]
      was == s.buttonWasPressed[i]
      s1 ==
        IF buttonPressed /\ ~was
        THEN IF s.enc[i].isActive /\ s.waitingForNextPress[i]
             THEN onPressWhileLatched(Dispatch(s, i, "onPressWhileLatched", A), A, i)
             ELSE onPressStart(Dispatch(s, i, "onPressStart", A), A, i)
        ELSE IF ~buttonPressed /\ was
        THEN onReleaseShort(Dispatch(s, i, "onReleaseShort", A), A, i)
        ELSE IF buttonPressed /\ was /\ ~s.buttonHoldProcessed[i] /\ ~s.enc[i].isActive
        THEN IF s.pressAge[i] >= BUTTON_HOLD_TIME
             THEN LET h == onHold(Dispatch(s, i, "onHold", A), A, i)
                  IN IF i = 7 THEN [h EXCEPT !.buttonHoldProcessed[i] = TRUE] ELSE h
             ELSE s
        ELSE s
  IN [s1 EXCEPT !.buttonWasPressed[i] = buttonPressed]

\* loop(): body of the for loop over the encoders
LoopBody(s, i, currentValue, buttonPressed) ==
  LET sw == s.lastSwitchState
      s1 == IF currentValue # s.lastEncoderValues[i]
            THEN handleEncoderValueChange(s, i, currentValue, sw) ELSE s
      s2 == ChordDegreeRotation(s1, i, currentValue)
      s3 == ChordTypeRotation(s2, i, currentValue)
      s4 == AssignRotation(s3, i, currentValue)
  IN ButtonHandling(s4, i, buttonPressed)

\* loop(): global touch-to-panic
TouchPanic(s, touchNow) ==
  LET s1 == IF touchNow /\ ~s.touchWasDown /\ s.touchAge > TOUCH_DEBOUNCE_MS
            THEN [clearAllEncoderLatchesAndVisuals(
                    handlePanicResetChordIfLatched(panicAllNotesOff(s)))
                    EXCEPT !.chordPlaying = FALSE, !.touchAge = 0,
                           !.dispatched = [ch |-> -1, ev |-> "touchPanic", act |-> "NOOP"]]
            ELSE s
  IN [s1 EXCEPT !.touchWasDown = touchNow]

\* variant: the switch change also drops every latch
SwitchChange_ClearsLatches(s, currentSwitchState) ==
  IF currentSwitchState # s.lastSwitchState
  THEN LET s1 == [s EXCEPT !.lastSwitchState = currentSwitchState,
                           !.currentMode = IF currentSwitchState THEN "CHORD_STATE"
                                           ELSE "SCALE_STATE",
                           !.enc = [i \in Channels |->
                                      [isActive |-> FALSE, shortPress |-> FALSE]],
                           !.waitingForNextPress = [i \in Channels |-> FALSE]]
       IN IF s1.currentMode = "CHORD_STATE" THEN applyChordSubModeMapping(s1) ELSE s1
  ELSE s

\* loop(): READ SWITCH STATE and handle a switch change
SwitchChange(s, currentSwitchState) ==
  IF currentSwitchState # s.lastSwitchState
  THEN LET s1 == [s EXCEPT !.lastSwitchState = currentSwitchState,
                           !.currentMode = IF currentSwitchState THEN "CHORD_STATE"
                                           ELSE "SCALE_STATE"]
       IN IF s1.currentMode = "CHORD_STATE" THEN applyChordSubModeMapping(s1) ELSE s1
  ELSE s

\* millis() moves on by dt between two passes of loop()
AdvanceTime(s, dt) ==
  [s EXCEPT !.pressAge = [i \in Channels |-> Min(@[i] + dt, AgeCap)],
            !.touchAge = Min(@ + dt, TouchAgeCap)]

\* ------------------------------------------------------------ state
\* Program variables, then the bookkeeping of the run.  holdToggles is a
\* history variable: the number of chord sub-mode toggles made since the
\* last press start of control 7.  noteOnPitch is a history variable: the
\* pitch a sounding note key was started with.
VARIABLES
  bleMidiConnected, chordPlaying, currentMode, chordSubMode, encoder7Mode,
  lastSwitchState, touchWasDown, touchAge, actionMap, enc, waitingForNextPress,
  buttonHoldProcessed, buttonWasPressed, pressAge, fundamental, scaleNo, currentOctave,
  currentChordDegree, currentChord, assignSlots, encoderVelocity, lastEncoderValues,
  encoder8LastValue, encoderInitialized, stepAccumulator, lastEncoder0Value,
  chordStepAccumulator, lastEncoder1Value, typeStepAccumulator, lastAssignVal, acc,
  key, scaleNoteNo, scaleIntervals,
  midiOut, dispatched, loopIdx, presses, turns, scenario, errorCount, holdToggles,
  noteOnPitch

progVars ==
  <<bleMidiConnected, chordPlaying, currentMode, chordSubMode, encoder7Mode,
    lastSwitchState, touchWasDown, touchAge, actionMap, enc, waitingForNextPress,
    buttonHoldProcessed, buttonWasPressed, pressAge, fundamental, scaleNo,
    currentOctave, currentChordDegree, currentChord, assignSlots, encoderVelocity,
    lastEncoderValues, encoder8LastValue, encoderInitialized, stepAccumulator,
    lastEncoder0Value, chordStepAccumulator, lastEncoder1Value, typeStepAccumulator,
    lastAssignVal, acc, key, scaleNoteNo, scaleIntervals, midiOut, dispatched>>
vars == <<progVars, loopIdx, presses, turns, scenario, errorCount, holdToggles, noteOnPitch>>

\* The program state as one record, threaded through the operators above
State ==
  [bleMidiConnected |-> bleMidiConnected, chordPlaying |-> chordPlaying,
   currentMode |-> currentMode, chordSubMode |-> chordSubMode,
   encoder7Mode |-> encoder7Mode, lastSwitchState |-> lastSwitchState,
   touchWasDown |-> touchWasDown, touchAge |-> touchAge, actionMap |-> actionMap,
   enc |-> enc, waitingForNextPress |-> waitingForNextPress,
   buttonHoldProcessed |-> buttonHoldProcessed, buttonWasPressed |-> buttonWasPressed,
   pressAge |-> pressAge, fundamental |-> fundamental, scaleNo |-> scaleNo,
   currentOctave |-> currentOctave, currentChordDegree |-> currentChordDegree,
   currentChord |-> currentChord, assignSlots |-> assignSlots,
   encoderVelocity |-> encoderVelocity, lastEncoderValues |-> lastEncoderValues,
   encoder8LastValue |-> encoder8LastValue, encoderInitialized |-> encoderInitialized,
   stepAccumulator |-> stepAccumulator, lastEncoder0Value |-> lastEncoder0Value,
   chordStepAccumulator |-> chordStepAccumulator,
   lastEncoder1Value |-> lastEncoder1Value,
   typeStepAccumulator |-> typeStepAccumulator, lastAssignVal |-> lastAssignVal,
   acc |-> acc, key |-> key, scaleNoteNo |-> scaleNoteNo,
   scaleIntervals |-> scaleIntervals, midiOut |-> midiOut, dispatched |-> dispatched]

Commit(s) ==
  /\ bleMidiConnected' = s.bleMidiConnected
  /\ chordPlaying' = s.chordPlaying
  /\ currentMode' = s.currentMode
  /\ chordSubMode' = s.chordSubMode
  /\ encoder7Mode' = s.encoder7Mode
  /\ lastSwitchState' = s.lastSwitchState
  /\ touchWasDown' = s.touchWasDown
  /\ touchAge' = s.touchAge
  /\ actionMap' = s.actionMap
  /\ enc' = s.enc
  /\ waitingForNextPress' = s.waitingForNextPress
  /\ buttonHoldProcessed' = s.buttonHoldProcessed
  /\ buttonWasPressed' = s.buttonWasPressed
  /\ pressAge' = s.pressAge
  /\ fundamental' = s.fundamental
  /\ scaleNo' = s.scaleNo
  /\ currentOctave' = s.currentOctave
  /\ currentChordDegree' = s.currentChordDegree
  /\ currentChord' = s.currentChord
  /\ assignSlots' = s.assignSlots
  /\ encoderVelocity' = s.encoderVelocity
  /\ lastEncoderValues' = s.lastEncoderValues
  /\ encoder8LastValue' = s.encoder8LastValue
  /\ encoderInitialized' = s.encoderInitialized
  /\ stepAccumulator' = s.stepAccumulator
  /\ lastEncoder0Value' = s.lastEncoder0Value
  /\ chordStepAccumulator' = s.chordStepAccumulator
  /\ lastEncoder1Value' = s.lastEncoder1Value
  /\ typeStepAccumulator' = s.typeStepAccumulator
  /\ lastAssignVal' = s.lastAssignVal
  /\ acc' = s.acc
  /\ key' = s.key
  /\ scaleNoteNo' = s.scaleNoteNo
  /\ scaleIntervals' = s.scaleIntervals
  /\ midiOut' = s.midiOut
  /\ dispatched' = s.dispatched

Commit_Init(s) ==
  /\ bleMidiConnected = s.bleMidiConnected
  /\ chordPlaying = s.chordPlaying
  /\ currentMode = s.currentMode
  /\ chordSubMode = s.chordSubMode
  /\ encoder7Mode = s.encoder7Mode
  /\ lastSwitchState = s.lastSwitchState
  /\ touchWasDown = s.touchWasDown
  /\ touchAge = s.touchAge
  /\ actionMap = s.actionMap
  /\ enc = s.enc
  /\ waitingForNextPress = s.waitingForNextPress
  /\ buttonHoldProcessed = s.buttonHoldProcessed
  /\ buttonWasPressed = s.buttonWasPressed
  /\ pressAge = s.pressAge
  /\ fundamental = s.fundamental
  /\ scaleNo = s.scaleNo
  /\ currentOctave = s.currentOctave
  /\ currentChordDegree = s.currentChordDegree
  /\ currentChord = s.currentChord
  /\ assignSlots = s.assignSlots
  /\ encoderVelocity = s.encoderVelocity
  /\ lastEncoderValues = s.lastEncoderValues
  /\ encoder8LastValue = s.encoder8LastValue
  /\ encoderInitialized = s.encoderInitialized
  /\ stepAccumulator = s.stepAccumulator
  /\ lastEncoder0Value = s.lastEncoder0Value
  /\ chordStepAccumulator = s.chordStepAccumulator
  /\ lastEncoder1Value = s.lastEncoder1Value
  /\ typeStepAccumulator = s.typeStepAccumulator
  /\ lastAssignVal = s.lastAssignVal
  /\ acc = s.acc
  /\ key = s.key
  /\ scaleNoteNo = s.scaleNoteNo
  /\ scaleIntervals = s.scaleIntervals
  /\ midiOut = s.midiOut
  /\ dispatched = s.dispatched

\* Every step starts with an empty record of what it sent and dispatched
Fresh(s) == [s EXCEPT !.midiOut = <<>>, !.dispatched = NoDispatch]

\* State after setup(): C major with its keys marked and its intervals
\* computed, octave 4, degree I major triad, switch off,
\* every channel Released, all encoder counters preset to 60.  setup()
\* waits more than BUTTON_HOLD_TIME before the first loop(), so the zero
\* time stamps are already older than every threshold.
SetupState ==
  generateChordForDegree(setScaleIntervals(
    [bleMidiConnected |-> FALSE, chordPlaying |-> FALSE, currentMode |-> "SCALE_STATE",
     chordSubMode |-> "CHORD_NORMAL", encoder7Mode |-> "MODE_DEFAULT",
     lastSwitchState |-> FALSE, touchWasDown |-> FALSE, touchAge |-> TouchAgeCap,
     actionMap |-> initActionMaps,
     enc |-> [i \in Channels |-> [isActive |-> FALSE, shortPress |-> FALSE]],
     waitingForNextPress |-> [i \in Channels |-> FALSE],
     buttonHoldProcessed |-> [i \in Channels |-> FALSE],
     buttonWasPressed |-> [i \in Channels |-> FALSE],
     pressAge |-> [i \in Channels |-> AgeCap],
     fundamental |-> 0, scaleNo |-> 0, currentOctave |-> DEFAULT_OCTAVE,
     currentChordDegree |-> 0,
     currentChord |-> [type |-> CHORD_TRIAD, rootNote |-> 0, scaleDegree |-> 0,
                       notes |-> <<>>, noteCount |-> 0],
     assignSlots |-> [i \in 0 .. 6 |-> 0],
     encoderVelocity |-> [i \in 0 .. 6 |-> MAX_VELOCITY],
     lastEncoderValues |-> [i \in Channels |-> INITIAL_ENCODER_VALUE],
     encoder8LastValue |-> 0, encoderInitialized |-> FALSE, stepAccumulator |-> 0,
     lastEncoder0Value |-> INITIAL_ENCODER_VALUE, chordStepAccumulator |-> 0,
     lastEncoder1Value |-> INITIAL_ENCODER_VALUE, typeStepAccumulator |-> 0,
     lastAssignVal |-> [i \in 0 .. 6 |-> INITIAL_ENCODER_VALUE],
     acc |-> [i \in 0 .. 6 |-> 0],
     key |-> [k \in 0 .. (NUM_KEYS - 1) |->
                [inScale |-> k \in {0, 2, 4, 5, 7, 9, 11}, isFundamental |-> k = 0]],
     scaleNoteNo |-> [i \in 0 .. 6 |-> 0],
     scaleIntervals |-> [i \in 0 .. 6 |-> 0],
     midiOut |-> <<>>, dispatched |-> NoDispatch]),
    0)

\* ------------------------------------------------------------ environment
\* noteOnPitch of a channel that is not sounding a note key
NoPitch == -1

\* What the user operates in a run: the buttons pressed, the knobs turned,
\* whether the touch surface is used (and whether passes of loop() can then
\* be as short as one update interval), the positions the toggle switch
\* takes, whether the BLE link changes after the first pass of loop(), and
\* the channels whose read can fail.  Channels 3..5 are mapped like channel
\* 2 in all three dispatch rows and are left alone.
Scenarios ==
  { [buttons |-> {2, 6, 7}, knobs |-> {}, touch |-> TRUE, fast |-> FALSE,
     switch |-> BOOLEAN, link |-> FALSE, faulty |-> {}],
    [buttons |-> {2}, knobs |-> {}, touch |-> TRUE, fast |-> TRUE,
     switch |-> {FALSE}, link |-> FALSE, faulty |-> {}],
    [buttons |-> {0, 2, 7}, knobs |-> {}, touch |-> FALSE, fast |-> FALSE,
     switch |-> BOOLEAN, link |-> TRUE, faulty |-> {}],
    [buttons |-> {0, 7}, knobs |-> {7}, touch |-> FALSE, fast |-> FALSE,
     switch |-> {TRUE}, link |-> FALSE, faulty |-> {}] }

Operated == scenario.buttons \cup scenario.knobs \cup scenario.faulty

\* The BLE link may already be up when loop() runs for the first time.
Init ==
  /\ \E up \in BOOLEAN : Commit_Init([SetupState EXCEPT !.bleMidiConnected = up])
  /\ loopIdx = NUM_ENCODERS
  /\ presses = 0
  /\ turns = 0
  /\ scenario \in Scenarios
  /\ errorCount = 0
  /\ holdToggles = 0
  /\ noteOnPitch = [i \in 0 .. 6 |-> NoPitch]

\* Button level read for encoder i: at most MaxPresses press edges are made.
ButtonLevels(i) ==
  IF i \notin scenario.buttons THEN {FALSE}
  ELSE IF buttonWasPressed[i] \/ presses < MaxPresses THEN BOOLEAN ELSE {FALSE}

\* Counter value read for encoder i: the knob moved by at most one raw step
\* since the last read, and at most MaxTurns raw steps are made.
CounterValues(i) ==
  IF i \in scenario.knobs /\ turns < MaxTurns
  THEN {lastEncoderValues[i] - 1, lastEncoderValues[i], lastEncoderValues[i] + 1}
  ELSE {lastEncoderValues[i]}

\* Duration of a pass of loop(): slow, or exactly one update interval
\* while the touch debounce of the last panic is still running.
TickSteps ==
  IF scenario.fast /\ touchAge < TouchAgeCap THEN {UPDATE_INTERVAL, SlowTicks * UPDATE_INTERVAL}
  ELSE {SlowTicks * UPDATE_INTERVAL}

TouchLevels == IF scenario.touch THEN BOOLEAN ELSE {FALSE}
SwitchLevels == scenario.switch

\* The iterations for the encoders from i on that the user leaves alone
\* (button up, counter unchanged), up to the next operated encoder.
RECURSIVE IdleIterations(_, _)
IdleIterations(s, i) ==
  IF i >= NUM_ENCODERS \/ i \in Operated THEN s
  ELSE IdleIterations(LoopBody(s, i, s.lastEncoderValues[i], FALSE), i + 1)

RECURSIVE NextOperated(_)
NextOperated(i) ==
  IF i >= NUM_ENCODERS \/ i \in Operated THEN i ELSE NextOperated(i + 1)

\* ------------------------------------------------------------ actions
\* The history of the note keys: the pitch of the noteOn sent at the press
\* start of a NOTE_KEY channel, kept until the channel is Released again.
TrackNoteOn ==
  [i \in 0 .. 6 |->
     IF ~enc'[i].isActive /\ ~enc'[i].shortPress THEN NoPitch
     ELSE IF dispatched' = [ch |-> i, ev |-> "onPressStart", act |-> "NOTE_KEY"]
             /\ midiOut' # <<>>
     THEN midiOut'[1].n
     ELSE noteOnPitch[i]]

\* loop() up to the first operated encoder: rate limit, touch-to-panic, switch
LoopBegin ==
  /\ loopIdx = NUM_ENCODERS
  /\ \E dt \in TickSteps, touchNow \in TouchLevels, currentSwitchState \in SwitchLevels :
       Commit(IdleIterations(
                SwitchChange(TouchPanic(AdvanceTime(Fresh(State), dt), touchNow),
                             currentSwitchState), 0))
  /\ loopIdx' = NextOperated(0)
  /\ errorCount' = 0
  /\ noteOnPitch' = TrackNoteOn
  /\ UNCHANGED <<presses, turns, scenario, holdToggles>>

\* loop(): the iteration of the for loop for encoder loopIdx (and the idle
\* iterations up to the next operated encoder)
LoopIteration ==
  /\ loopIdx < NUM_ENCODERS
  /\ \E buttonPressed \in ButtonLevels(loopIdx), currentValue \in CounterValues(loopIdx) :
       /\ Commit(IdleIterations(
                   LoopBody(Fresh(State), loopIdx, currentValue, buttonPressed),
                   loopIdx + 1))
       /\ presses' = IF buttonPressed /\ ~buttonWasPressed[loopIdx]
                     THEN presses + 1 ELSE presses
       /\ turns' = IF currentValue # lastEncoderValues[loopIdx] THEN turns + 1 ELSE turns
  /\ loopIdx' = NextOperated(loopIdx + 1)
  /\ errorCount' = 0
  /\ holdToggles' =
       IF loopIdx # 7 THEN holdToggles
       ELSE (IF buttonWasPressed'[7] /\ ~buttonWasPressed[7] THEN 0 ELSE holdToggles)
            + (IF chordSubMode' # chordSubMode THEN 1 ELSE 0)
  /\ noteOnPitch' = TrackNoteOn
  /\ UNCHANGED scenario

\* BLE callbacks: they run between two steps of loop()
OnMidiConnected ==
  /\ scenario.link
  /\ ~bleMidiConnected
  /\ Commit([Fresh(State) EXCEPT !.bleMidiConnected = TRUE])
  /\ UNCHANGED <<loopIdx, presses, turns, scenario, errorCount, holdToggles, noteOnPitch>>

OnMidiDisconnected ==
  /\ scenario.link
  /\ bleMidiConnected
  /\ Commit([Fresh(State) EXCEPT !.bleMidiConnected = FALSE])
  /\ UNCHANGED <<loopIdx, presses, turns, scenario, errorCount, holdToggles, noteOnPitch>>

Next == LoopBegin \/ LoopIteration \/ OnMidiConnected \/ OnMidiDisconnected

Spec == Init /\ [][Next]_vars

\* ------------------------------------------------------------ tuned starts
\* A second specification starts loop() from the states the user reaches by
\* tuning the instrument first, with the BLE link up and the switch on
\* CHORD: knob 7 dialled upwards to scale sc, root f and the octave (its
\* first raw step only initialises it, every further two raw steps move
\* the parameter of the edit mode by one), button 7 tapped on to the edit
\* mode, knob 0 dialled to the chord degree and knob 1 to the chord type,
\* and, for the assign sub-mode, button 7 held and the knob of the assign
\* channel dialled to its slot.  Then everything is left alone for longer
\* than the hold time.

\* the channel whose assign slot is rotated and whose trigger is pressed
AssignChannel == 3

\* What the user tuned before the run, by what is operated in the run: knob
\* 7 in an edit mode, the degree knob, the type knob, the button of the
\* assign channel, or its knob.  A knob moves its parameter by at most one
\* in a run, so every third start value is enough to reach every value and
\* both wraps.
EditProfiles ==
  [kind : {"edit"}, mode : {"MODE_SCALE", "MODE_ROOT"}, octave : {DEFAULT_OCTAVE},
   degree : {0}, type : {CHORD_TRIAD, CHORD_MINOR_SEVENTH}, slot : {AssignChannel}]
  \cup
  [kind : {"edit"}, mode : {"MODE_OCTAVE"}, octave : {MIN_OCTAVE, DEFAULT_OCTAVE, MAX_OCTAVE},
   degree : {0}, type : {CHORD_TRIAD}, slot : {AssignChannel}]
DegreeProfiles ==
  [kind : {"degree"}, mode : {"MODE_DEFAULT"}, octave : {DEFAULT_OCTAVE}, degree : {0, 3, 6},
   type : CHORD_TRIAD .. CHORD_AUGMENTED, slot : {AssignChannel}]
TypeProfiles ==
  [kind : {"type"}, mode : {"MODE_DEFAULT"}, octave : {DEFAULT_OCTAVE}, degree : {0},
   type : {CHORD_TRIAD, CHORD_MINOR_SEVENTH, CHORD_AUGMENTED}, slot : {AssignChannel}]
AssignProfiles ==
  [kind : {"assign"}, mode : {"MODE_DEFAULT"}, octave : {DEFAULT_OCTAVE}, degree : {0},
   type : {CHORD_TRIAD}, slot : 0 .. 6]
SlotProfiles ==
  [kind : {"slot"}, mode : {"MODE_DEFAULT"}, octave : {DEFAULT_OCTAVE}, degree : {0},
   type : {CHORD_TRIAD}, slot : {0, 3, 6}]
Profiles ==
  EditProfiles \cup DegreeProfiles \cup TypeProfiles \cup AssignProfiles \cup SlotProfiles

\* counter of knob 7 after dialling scale sc, root f and octave o upwards
Dial7(sc, f, o) == INITIAL_ENCODER_VALUE + 1 + 2 * (sc + f + (o - DEFAULT_OCTAVE))

Tuned(f, sc, p) ==
  LET dial7 == Dial7(sc, f, p.octave)
      dial0 == INITIAL_ENCODER_VALUE + 2 * p.degree
      dial1 == INITIAL_ENCODER_VALUE + 2 * p.type
      dialA == INITIAL_ENCODER_VALUE + 2 * ((p.slot + 7 - AssignChannel) % 7)
      chordOn == SwitchChange([SetupState EXCEPT !.bleMidiConnected = TRUE], TRUE)
      s1 == [chordOn EXCEPT !.fundamental = f, !.scaleNo = sc, !.currentOctave = p.octave,
                            !.encoder7Mode = p.mode, !.lastEncoderValues[7] = dial7,
                            !.encoder8LastValue = dial7, !.encoderInitialized = TRUE]
      s2 == setScaleIntervals(MarkKeysInScale(MarkFundamental(s1)))
      s3 == [s2 EXCEPT !.currentChord.type = p.type,
                       !.lastEncoderValues[0] = dial0, !.lastEncoder0Value = dial0,
                       !.lastEncoderValues[1] = dial1, !.lastEncoder1Value = dial1]
      s4 == IF p.kind \in {"assign", "slot"}
            THEN [ToggleChordSubMode(s3) EXCEPT
                    !.buttonHoldProcessed[7] = TRUE,
                    !.assignSlots[AssignChannel] = p.slot,
                    !.lastEncoderValues[AssignChannel] = dialA,
                    !.lastAssignVal[AssignChannel] = dialA]
            ELSE s3
  IN generateChordForDegree(s4, p.degree)

\* What is operated in the run after the tuning
ProfileScenario(p) ==
  [buttons |-> IF p.kind = "assign" THEN {AssignChannel} ELSE {},
   knobs |-> CASE p.kind = "edit" -> {7}
               [] p.kind = "degree" -> {0}
               [] p.kind = "type" -> {1}
               [] p.kind = "slot" -> {AssignChannel}
               [] OTHER -> {},
   touch |-> FALSE, fast |-> FALSE, switch |-> {TRUE}, link |-> FALSE, faulty |-> {}]

TunedInit ==
  \E f \in 0 .. (NUM_KEYS - 1), sc \in 0 .. MAX_SCALE_NO, p \in Profiles :
    /\ Commit_Init(Tuned(f, sc, p))
    /\ loopIdx = NUM_ENCODERS
    /\ presses = 0
    /\ turns = 0
    /\ scenario = ProfileScenario(p)
    /\ errorCount = 0
    /\ holdToggles = 0
    /\ noteOnPitch = [i \in 0 .. 6 |-> NoPitch]

TunedNext == LoopBegin \/ LoopIteration

TunedSpec == TunedInit /\ [][TunedNext]_vars

\* ------------------------------------------------------------ bus faults
\* class I2CManager
MAX_RETRIES == 3
MAX_ERRORS == 10

\* A third specification lets the read of an encoder fail, as in the
\* revision of I2CManager::readEncoderValue that retries MAX_RETRIES times,
\* counts every failed attempt and then reports the failure.  The bus does
\* not come back in these runs: the re-initialisation of the sensor in
\* handleErrors fails whenever it is attempted.
FaultScenarios ==
  { [buttons |-> {1, 6}, knobs |-> {}, touch |-> FALSE, fast |-> FALSE,
     switch |-> {FALSE}, link |-> FALSE, faulty |-> {2, 3, 4, 5}] }

FaultInit ==
  /\ \E up \in BOOLEAN : Commit_Init([SetupState EXCEPT !.bleMidiConnected = up])
  /\ loopIdx = NUM_ENCODERS
  /\ presses = 0
  /\ turns = 0
  /\ scenario \in FaultScenarios
  /\ errorCount = 0
  /\ holdToggles = 0
  /\ noteOnPitch = [i \in 0 .. 6 |-> NoPitch]

\* handleErrors: below the limit it does nothing and reports success; above
\* it the bus is reset and the result is that of the sensor start
handleErrors(count, sensorStarted) == count <= MAX_ERRORS \/ sensorStarted

\* loop(): the read of encoder loopIdx fails.  The iteration is skipped; if
\* handleErrors then reports failure, loop() returns.
ReadFault ==
  /\ loopIdx < NUM_ENCODERS
  /\ loopIdx \in scenario.faulty
  /\ errorCount' = errorCount + MAX_RETRIES
  /\ IF handleErrors(errorCount + MAX_RETRIES, FALSE)
     THEN /\ Commit(IdleIterations(Fresh(State), loopIdx + 1))
          /\ loopIdx' = NextOperated(loopIdx + 1)
     ELSE /\ Commit(Fresh(State))
          /\ loopIdx' = NUM_ENCODERS
  /\ UNCHANGED <<presses, turns, scenario, holdToggles, noteOnPitch>>

FaultNext == LoopBegin \/ LoopIteration \/ ReadFault

FaultSpec == FaultInit /\ [][FaultNext]_vars

\* ------------------------------------------------------------ velocity dials
\* Counter values the knobs 0 and 6 were left at, with the switch off,
\* before the run: around both ends of the velocity range and in between.
DialStarts == {-1, 0, 1, 30, 59, 61}

Dialled(v0, v6) ==
  [SetupState EXCEPT !.lastEncoderValues[0] = v0, !.lastEncoderValues[6] = v6,
                     !.encoderVelocity[0] = CounterVelocity(v0),
                     !.encoderVelocity[6] = CounterVelocity(v6)]

VelocityInit ==
  \E v0 \in DialStarts, v6 \in DialStarts :
    /\ Commit_Init(Dialled(v0, v6))
    /\ loopIdx = NUM_ENCODERS
    /\ presses = 0
    /\ turns = 0
    /\ scenario = [buttons |-> {}, knobs |-> {0, 6}, touch |-> FALSE, fast |-> FALSE,
                   switch |-> BOOLEAN, link |-> FALSE, faulty |-> {}]
    /\ errorCount = 0
    /\ holdToggles = 0
    /\ noteOnPitch = [i \in 0 .. 6 |-> NoPitch]

VelocityNext == LoopBegin \/ LoopIteration

VelocitySpec == VelocityInit /\ [][VelocityNext]_vars

\* ------------------------------------------------------------ octave dial
\* Knob 7 was left in MODE_OCTAVE; in the run a chord is triggered on
\* channel 0 (CHORD_NORMAL) or on channel 6 (CHORD_ASSIGN) and knob 7 is
\* turned.
RevoiceProfiles ==
  [kind : {"edit", "assign"}, mode : {"MODE_OCTAVE"},
   octave : {MIN_OCTAVE, DEFAULT_OCTAVE, MAX_OCTAVE},
   degree : {0}, type : {CHORD_TRIAD}, slot : {AssignChannel}]

RevoiceInit ==
  \E f \in {0, NUM_KEYS - 1}, sc \in {0, 1}, p \in RevoiceProfiles :
    /\ Commit_Init(Tuned(f, sc, p))
    /\ loopIdx = NUM_ENCODERS
    /\ presses = 0
    /\ turns = 0
    /\ scenario = [buttons |-> IF p.kind = "assign" THEN {6} ELSE {0}, knobs |-> {7},
                   touch |-> FALSE, fast |-> FALSE, switch |-> {TRUE}, link |-> FALSE,
                   faulty |-> {}]
    /\ errorCount = 0
    /\ holdToggles = 0
    /\ noteOnPitch = [i \in 0 .. 6 |-> NoPitch]

RevoiceNext == LoopBegin \/ LoopIteration

RevoiceSpec == RevoiceInit /\ [][RevoiceNext]_vars

\* ------------------------------------------------------------ slot dials
\* CHORD mode with the degree knob left at degree 0 or 6; in the run the
\* mode button is operated (its hold enters and leaves CHORD_ASSIGN) and
\* the knobs of the first and the last slot are turned.
SlotDialProfiles ==
  [kind : {"degree"}, mode : {"MODE_DEFAULT"}, octave : {DEFAULT_OCTAVE}, degree : {0, 6},
   type : {CHORD_TRIAD}, slot : {AssignChannel}]

SlotDialInit ==
  \E sc \in {0, 1}, p \in SlotDialProfiles :
    /\ Commit_Init(Tuned(0, sc, p))
    /\ loopIdx = NUM_ENCODERS
    /\ presses = 0
    /\ turns = 0
    /\ scenario = [buttons |-> {7}, knobs |-> {0, 6}, touch |-> FALSE, fast |-> FALSE,
                   switch |-> {TRUE}, link |-> FALSE, faulty |-> {}]
    /\ errorCount = 0
    /\ holdToggles = 0
    /\ noteOnPitch = [i \in 0 .. 6 |-> NoPitch]

SlotDialNext == LoopBegin \/ LoopIteration

SlotDialSpec == SlotDialInit /\ [][SlotDialNext]_vars

\* ------------------------------------------------------------ switch off
\* The switch stays off (SCALE mode) and the link is up; the mode button
\* was short-pressed one to three times before the run, so knob 7 is in an
\* edit mode.  In the run note key 2 is played and knob 7 is turned.
SwitchOffInit ==
  \E m \in {"MODE_SCALE", "MODE_ROOT", "MODE_OCTAVE"} :
    /\ Commit_Init([SetupState EXCEPT !.bleMidiConnected = TRUE, !.encoder7Mode = m])
    /\ loopIdx = NUM_ENCODERS
    /\ presses = 0
    /\ turns = 0
    /\ scenario = [buttons |-> {2}, knobs |-> {7}, touch |-> FALSE, fast |-> FALSE,
                   switch |-> {FALSE}, link |-> FALSE, faulty |-> {}]
    /\ errorCount = 0
    /\ holdToggles = 0
    /\ noteOnPitch = [i \in 0 .. 6 |-> NoPitch]

SwitchOffNext == LoopBegin \/ LoopIteration

SwitchOffSpec == SwitchOffInit /\ [][SwitchOffNext]_vars

\* ------------------------------------------------------------ properties
\* The three button states of a channel
Released(i) == ~enc[i].isActive /\ ~enc[i].shortPress
PressedWaitingHold(i) == enc[i].shortPress /\ ~enc[i].isActive
Latched(i) == enc[i].isActive

\* Steps of loop(): the iteration for channel i; the press and release
\* edges it sees; the start of a pass in which the touch panic ran
IterationOf(i) == loopIdx = i /\ loopIdx' # loopIdx
PressEdge(i) == IterationOf(i) /\ ~buttonWasPressed[i] /\ buttonWasPressed'[i]
ReleaseEdge(i) == IterationOf(i) /\ buttonWasPressed[i] /\ ~buttonWasPressed'[i]
StillHeld(i) == IterationOf(i) /\ buttonWasPressed[i] /\ buttonWasPressed'[i]
PanicInvoked == dispatched'.ev = "touchPanic"

\* The action the button of channel i is dispatched to
ActionOf(i) == actionMap[currentMode][i]

\* The messages of a step that follow its last noteOn: what a button
\* callback sent after the revoicing done earlier in the same iteration
RECURSIVE AfterLastOn(_)
AfterLastOn(out) ==
  IF out = <<>> THEN <<>>
  ELSE IF \E p \in 1 .. Len(out) : out[p].t = "on"
       THEN AfterLastOn(Tail(out))
       ELSE out

\* The noteOff batch of a chord voiced in octave oct
ChordOffBatch(chord, oct) ==
  [k \in 1 .. Min(chord.noteCount, MAX_CHORD_NOTES) |->
     NoteOffMsg(midiInOctave(chord.notes[k], oct))]

\* C1: while a chord-trigger or assign-trigger channel is Latched with its
\* chord sounding (sink connected), every step that changes the root, the
\* scale index, the octave, the chord degree or the chord type sends a
\* noteOff for every pitch of the chord as voiced before the change, ahead
\* of any noteOn of that step.
ChordLatchedSounding ==
  /\ bleMidiConnected
  /\ chordPlaying
  /\ \E i \in Channels :
       Latched(i) /\ ActionOf(i) \in {"CHORD_TRIGGER", "ASSIGN_TRIGGER"}

HarmonyChanged ==
  \/ fundamental' # fundamental
  \/ scaleNo' # scaleNo
  \/ currentOctave' # currentOctave
  \/ currentChordDegree' # currentChordDegree
  \/ currentChord'.type # currentChord.type

OldVoicingSilenced ==
  \A k \in 1 .. Min(currentChord.noteCount, MAX_CHORD_NOTES) :
    \E p \in 1 .. Len(midiOut') :
      /\ midiOut'[p] = NoteOffMsg(midiInOctave(currentChord.notes[k], currentOctave))
      /\ \A q \in 1 .. (p - 1) : midiOut'[q].t # "on"

C1_NoStuckNotes ==
  [][(ChordLatchedSounding /\ HarmonyChanged) => OldVoicingSilenced]_vars

\* C2: for a channel whose action permits latching: a press held for the
\* hold time latches it; while Latched, an iteration without a press edge
\* leaves it Latched and fires no onHold; the next press edge returns it to
\* Released and stops the sound exactly once (one noteOff for a note key,
\* one noteOff batch for a chord, nothing when the sink is disconnected),
\* sets the hold-processed flag, and while that press stays held the channel
\* does not latch again.
StopSoundOnce(i) ==
  IF ~bleMidiConnected THEN <<>>
  ELSE IF ActionOf(i) = "NOTE_KEY" THEN <<NoteOffMsg(getEncoderMidiNote(State, i))>>
  ELSE ChordOffBatch(currentChord', currentOctave')

HoldLatches(i) ==
  (/\ StillHeld(i)
   /\ PressedWaitingHold(i)
   /\ ~buttonHoldProcessed[i]
   /\ pressAge[i] >= BUTTON_HOLD_TIME
   /\ allowsLatch(ActionOf(i)))
  => /\ Latched(i)'
     /\ ~enc'[i].shortPress
     /\ waitingForNextPress'[i]
     /\ dispatched' = [ch |-> i, ev |-> "onHold", act |-> ActionOf(i)]

LatchedStays(i) ==
  (IterationOf(i) /\ Latched(i) /\ ~PressEdge(i))
  => Latched(i)' /\ dispatched'.ev # "onHold"

PressUnlatches(i) ==
  (PressEdge(i) /\ Latched(i) /\ waitingForNextPress[i] /\ allowsLatch(ActionOf(i)))
  => /\ Released(i)'
     /\ ~waitingForNextPress'[i]
     /\ buttonHoldProcessed'[i]
     /\ AfterLastOn(midiOut') = StopSoundOnce(i)

NoRelatchWhileHeld(i) ==
  (StillHeld(i) /\ ~Latched(i) /\ buttonHoldProcessed[i])
  => ~Latched(i)' /\ buttonHoldProcessed'[i] /\ dispatched' = NoDispatch

C2_LatchIdempotence ==
  [][\A i \in Channels :
       HoldLatches(i) /\ LatchedStays(i) /\ PressUnlatches(i) /\ NoRelatchWhileHeld(i)]_vars

\* a latched chord trigger was just unlatched by a press, its chord silenced
C2_Witness ==
  /\ dispatched.ev = "onPressWhileLatched"
  /\ dispatched.act = "CHORD_TRIGGER"
  /\ Released(dispatched.ch)
  /\ buttonWasPressed[dispatched.ch]
  /\ midiOut # <<>>

\* C3: a pass of loop() that invokes panic on a touch-begin edge leaves
\* every one of the eight channels Released (not active, no short-press
\* visual, not waiting for a next press), whatever mix of states they had.
C3_PanicReleasesAll ==
  [][PanicInvoked =>
       \A i \in Channels : Released(i)' /\ ~waitingForNextPress'[i]]_vars

\* just after a panic that found channel 6 Latched with its chord sounding
\* and another button less than the hold time into its press
C3_Witness ==
  /\ dispatched.ev = "touchPanic"
  /\ \E p \in 1 .. Len(midiOut) : midiOut[p].t = "off"
  /\ \E i \in Channels \ {6} :
       buttonWasPressed[i] /\ buttonHoldProcessed[i] /\ pressAge[i] < BUTTON_HOLD_TIME
  /\ \A i \in Channels : Released(i)

\* C4 (as stated): when panic is invoked with the sink connected, the
\* number of stop-sounding calls it makes (a controller burst or a noteOff
\* batch counting as one call each) equals the number of channels that were
\* Latched.
RECURSIVE StopCalls(_)
StopCalls(out) ==
  IF out = <<>> THEN 0
  ELSE IF Len(out) > 1 /\ out[2].t = out[1].t THEN StopCalls(Tail(out))
  ELSE 1 + StopCalls(Tail(out))

C4_OneStopPerLatched ==
  [][(PanicInvoked /\ bleMidiConnected) =>
       StopCalls(midiOut') = Cardinality({i \in Channels : Latched(i)})]_vars

\* C4 (amended): panic sends, when the sink is connected, one controller
\* burst (sustain off, all notes off, all sound off) whatever the number of
\* Latched channels, followed by one noteOff batch of the current chord
\* exactly when the mode is ChordMode and channel 6 is Latched; it sends
\* nothing when the sink is disconnected.
PanicOutput ==
  IF ~bleMidiConnected THEN <<>>
  ELSE <<ControlChangeMsg(64), ControlChangeMsg(123), ControlChangeMsg(120)>>
       \o (IF currentMode = "CHORD_STATE" /\ Latched(6)
           THEN ChordOffBatch(currentChord, currentOctave) ELSE <<>>)

C4_PanicSendsOneBurst ==
  [][PanicInvoked => (midiOut' = PanicOutput /\ ~chordPlaying')]_vars

\* just after a panic with the sink connected that found two channels
\* Latched and sent the controller burst alone
C4_Witness ==
  /\ dispatched.ev = "touchPanic"
  /\ Len(midiOut) = 3
  /\ Cardinality({i \in Channels \ {7} :
                    buttonHoldProcessed[i] /\ pressAge[i] >= BUTTON_HOLD_TIME}) >= 2

\* C5: a channel enters Latched only from PressedWaitingHold, with its
\* button held since the press-start for at least the hold time, and only
\* if the action it is dispatched to permits latching.
C5_LatchOnlyFromPressedHeld ==
  [][\A i \in Channels :
       (~Latched(i) /\ Latched(i)') =>
          /\ PressedWaitingHold(i)
          /\ StillHeld(i)
          /\ pressAge[i] >= BUTTON_HOLD_TIME
          /\ allowsLatch(ActionOf(i))]_vars

\* C6: the active flag and the short-press flag of a channel are never
\* both set: every channel is in exactly one of the three button states.
C6_ActiveExcludesShortPress ==
  \A i \in Channels : ~(enc[i].isActive /\ enc[i].shortPress)

\* one channel Latched while another is PressedWaitingHold
C6_Witness ==
  \E i, j \in Channels : Latched(i) /\ PressedWaitingHold(j)

\* C7 (as stated): once the hold of a press has been processed, the release
\* of that press does nothing: no noteOff from the button, no mode cycle, no
\* sub-mode toggle, no change of the channel's visual state, and the
\* hold-processed flag stays set until the next press-start.
ReleaseIsSilent(i) ==
  /\ AfterLastOn(midiOut') = <<>>
  /\ encoder7Mode' = encoder7Mode
  /\ chordSubMode' = chordSubMode
  /\ buttonHoldProcessed'[i]

\* the hold-processed flag is cleared only by a press-start of the channel
FlagPersists(i) ==
  (buttonHoldProcessed[i] /\ ~buttonHoldProcessed'[i])
  => (PressEdge(i) /\ dispatched'.ev = "onPressStart" /\ dispatched'.ch = i)

C7_ReleaseAfterHoldIsInert ==
  [][\A i \in Channels :
       /\ FlagPersists(i)
       /\ (ReleaseEdge(i) /\ buttonHoldProcessed[i]) =>
             (ReleaseIsSilent(i) /\ enc'[i] = enc[i])]_vars

\* C7 (amended): the release of a press whose hold was processed runs no
\* short-press action (no noteOff, no mode cycle, no sub-mode toggle) and
\* leaves the hold-processed flag set until the next press-start; channels
\* 0..6 keep their visual state
\* (a Latched channel stays Latched), and control 7, which never latches,
\* has its pressed indicator cleared by that release.
C7_ReleaseAfterHoldNoShortAction ==
  [][\A i \in Channels :
       /\ FlagPersists(i)
       /\ (ReleaseEdge(i) /\ buttonHoldProcessed[i]) =>
             /\ ReleaseIsSilent(i)
             /\ (i # 7 => enc'[i] = enc[i])
             /\ (i = 7 => Released(i)')]_vars

\* a Latched note key whose latching press was just released, and the
\* mode button released after its hold toggled the chord sub-mode
C7_Witness ==
  /\ dispatched.ev = "onReleaseShort"
  /\ buttonHoldProcessed[dispatched.ch]
  /\ \/ dispatched.act = "NOTE_KEY" /\ Latched(dispatched.ch)
     \/ dispatched.ch = 7 /\ chordSubMode = "CHORD_ASSIGN"

\* C8: a channel in PressedWaitingHold whose button is released before the
\* hold time returns to Released, and the note or chord started at its
\* press-start receives its noteOff (sink connected, channels 0..6), even
\* if the switch or the chord sub-mode changed while the button was down.
C8_ShortReleaseStopsSound ==
  [][\A i \in Channels :
       (/\ ReleaseEdge(i)
        /\ PressedWaitingHold(i)
        /\ ~buttonHoldProcessed[i]
        /\ pressAge[i] < BUTTON_HOLD_TIME)
       => /\ Released(i)'
          /\ (bleMidiConnected /\ i # 7 =>
                \E p \in 1 .. Len(midiOut') : midiOut'[p].t = "off")]_vars

\* C9: a Latched channel leaves Latched only in a step that dispatches its
\* press-while-latched callback or that runs the panic; release edges,
\* continued holding, the passage of time and a second hold timeout leave
\* its state as it is.
C9_LatchedLeavesOnlyByUnlatch ==
  [][\A i \in Channels :
       Latched(i) =>
         \/ PanicInvoked
         \/ dispatched'.ev = "onPressWhileLatched" /\ dispatched'.ch = i /\ PressEdge(i)
         \/ enc'[i] = enc[i] /\ waitingForNextPress'[i] = waitingForNextPress[i]]_vars

\* a channel still Latched after its button was released
C9_Witness ==
  \E i \in Channels :
    Latched(i) /\ ~buttonWasPressed[i] /\ loopIdx = NUM_ENCODERS /\ dispatched = NoDispatch

\* C10: a channel enters Latched only in a step that dispatches the onHold
\* callback of a latch-permitting action mapped to it (never NoOp, Panic or
\* ModeCycle); control 7 is never Latched, although the onHold side effect
\* of its action (the sub-mode toggle) runs.
C10_OnlyLatchableActionsLatch ==
  /\ [](~Latched(7))
  /\ [][\A i \in Channels :
          (~Latched(i) /\ Latched(i)') =>
             /\ dispatched' = [ch |-> i, ev |-> "onHold", act |-> ActionOf(i)]
             /\ allowsLatch(ActionOf(i))
             /\ ActionOf(i) \notin {"NOOP", "PANIC", "MODE_CYCLE"}]_vars

\* the hold of control 7 just toggled the chord sub-mode without latching it
C10_Witness ==
  /\ dispatched = [ch |-> 7, ev |-> "onHold", act |-> "MODE_CYCLE"]
  /\ chordSubMode = "CHORD_ASSIGN"
  /\ ~Latched(7)
  /\ buttonHoldProcessed[7]

\* ------------------------------------------------------------ parameters
\* a raw step of knob 7 in direction d that is routed to the parameter of
\* the edit mode
RoutedStep(d) ==
  /\ IterationOf(7)
  /\ encoderInitialized
  /\ encoder7Mode # "MODE_DEFAULT"
  /\ lastEncoderValues'[7] = lastEncoderValues[7] + d

\* the parameter of edit mode m among scale sc, root f and octave o
EditedParameter(m, sc, f, o) ==
  CASE m = "MODE_SCALE" -> sc
    [] m = "MODE_ROOT" -> f
    [] OTHER -> o
EditedLow(m) == IF m = "MODE_OCTAVE" THEN MIN_OCTAVE ELSE 0
EditedHigh(m) ==
  CASE m = "MODE_SCALE" -> MAX_SCALE_NO
    [] m = "MODE_ROOT" -> NUM_KEYS - 1
    [] OTHER -> MAX_OCTAVE

\* the step fired the change c (0: no change) of the edited parameter
FiredChange(c) ==
  LET m == encoder7Mode
      old == EditedParameter(m, scaleNo, fundamental, currentOctave)
      new == EditedParameter(m, scaleNo', fundamental', currentOctave')
  IN /\ new = IF c = 0 THEN old
              ELSE IF old + c > EditedHigh(m) THEN EditedLow(m)
              ELSE IF old + c < EditedLow(m) THEN EditedHigh(m)
              ELSE old + c
     /\ m # "MODE_SCALE" => scaleNo' = scaleNo
     /\ m # "MODE_ROOT" => fundamental' = fundamental
     /\ m # "MODE_OCTAVE" => currentOctave' = currentOctave

\* C11: the accumulator of knob 7 is -1, 0 or 1 between steps; a routed raw
\* step in direction d that finds the accumulator at d fires the change d
\* (one step of the edited parameter, wrapping) and leaves the accumulator
\* at 0; any other routed step adds d to the accumulator and fires nothing.
\* So from an empty accumulator N steps in one direction fire N \div 2
\* changes and leave N % 2 steps in the accumulator.
C11_StepAccumulation ==
  /\ [](stepAccumulator \in {-1, 0, 1})
  /\ [][\A d \in {-1, 1} :
          RoutedStep(d) =>
            IF stepAccumulator = d
            THEN stepAccumulator' = 0 /\ FiredChange(d)
            ELSE stepAccumulator' = stepAccumulator + d /\ FiredChange(0)]_vars

\* two raw steps up from the dial position of octave 9 wrapped the octave
C11_Witness ==
  /\ encoder7Mode = "MODE_OCTAVE"
  /\ currentOctave = MIN_OCTAVE
  /\ stepAccumulator = 0
  /\ turns = 2
  /\ lastEncoderValues[7] = Dial7(scaleNo, fundamental, MAX_OCTAVE) + 2

\* the pitch class of scale degree d (taken mod 7) of the current scale
DegreePitchClass(d) == getScaleNote(fundamental, scaleNo, d % 7) % 12

\* C12: the seven intervals computed by setScaleIntervals for the current
\* root and scale are the forward distances between successive scale
\* degrees (the last one back up to the root), none is negative, and they
\* add up to 12.
C12_IntervalsCloseOctave ==
  /\ \A i \in 0 .. 6 :
       /\ scaleIntervals[i] >= 0
       /\ scaleIntervals[i] = (DegreePitchClass(i + 1) - DegreePitchClass(i)) % 12
  /\ scaleIntervals[0] + scaleIntervals[1] + scaleIntervals[2] + scaleIntervals[3]
       + scaleIntervals[4] + scaleIntervals[5] + scaleIntervals[6] = 12

\* the root was turned down from 0 to 11 under the harmonic minor scale and
\* the intervals were computed again
C12_Witness ==
  /\ encoder7Mode = "MODE_ROOT"
  /\ scaleNo = 3
  /\ fundamental = NUM_KEYS - 1
  /\ lastEncoderValues[7] = Dial7(scaleNo, 0, currentOctave) - 2
  /\ scaleIntervals = [i \in 0 .. 6 |-> intvlFormula[4][i + 1]]

\* C13: in MODE_ROOT a fired change of +1 takes root 11 to 0, a fired change
\* of -1 takes root 0 to 11, and every other fired change moves the root by
\* exactly the change.
C13_RootWrap ==
  [][\A d \in {-1, 1} :
       (RoutedStep(d) /\ encoder7Mode = "MODE_ROOT" /\ stepAccumulator = d) =>
         fundamental' = CASE fundamental = NUM_KEYS - 1 /\ d = 1 -> 0
                          [] fundamental = 0 /\ d = -1 -> NUM_KEYS - 1
                          [] OTHER -> fundamental + d]_vars

\* two raw steps up from the dial position of root 11 wrapped the root to 0
C13_Witness ==
  /\ encoder7Mode = "MODE_ROOT"
  /\ fundamental = 0
  /\ key[0].isFundamental
  /\ stepAccumulator = 0
  /\ lastEncoderValues[7] = Dial7(scaleNo, NUM_KEYS - 1, currentOctave) + 2

\* C14: in every reachable state the root is in 0..11, the scale index in
\* 0..8, the octave in -1..9, the chord degree in 0..6, the chord type in
\* 0..6 and the degree of every assign slot in 0..6.
C14_ParametersInRange ==
  /\ fundamental \in 0 .. (NUM_KEYS - 1)
  /\ scaleNo \in 0 .. MAX_SCALE_NO
  /\ currentOctave \in MIN_OCTAVE .. MAX_OCTAVE
  /\ currentChordDegree \in 0 .. 6
  /\ currentChord.type \in CHORD_TRIAD .. CHORD_AUGMENTED
  /\ \A i \in 0 .. 6 : assignSlots[i] \in 0 .. 6

\* two raw steps down from the dial position of octave -1 wrapped it to 9
C14_Witness ==
  /\ encoder7Mode = "MODE_OCTAVE"
  /\ currentOctave = MAX_OCTAVE
  /\ stepAccumulator = 0
  /\ lastEncoderValues[7] = Dial7(scaleNo, fundamental, MIN_OCTAVE) - 2

\* ------------------------------------------------------------ chords
\* the semitones from scale degree d up to scale degree d + 2, read from
\* the intervals that setScaleIntervals left
ThirdAbove(d) == scaleIntervals[d % 7] + scaleIntervals[(d + 1) % 7]

\* C15: for every degree d the triad on scale degrees d, d+2, d+4 is
\* classified by its two ascending gaps: (4,3) major, (3,4) minor, (3,3)
\* diminished, (4,4) augmented; in C major degree 0 is major and degree 1
\* is minor.
C15_DiatonicClassification ==
  /\ \A d \in 0 .. 6 :
       LET g1 == ThirdAbove(d)
           g2 == ThirdAbove(d + 2)
           t == determineDiatonicTriadForDegree(State, d)
       IN /\ (g1 = 4 /\ g2 = 3) => t = CHORD_TRIAD
          /\ (g1 = 3 /\ g2 = 4) => t = CHORD_MINOR_TRIAD
          /\ (g1 = 3 /\ g2 = 3) => t = CHORD_DIMINISHED
          /\ (g1 = 4 /\ g2 = 4) => t = CHORD_AUGMENTED
  /\ (fundamental = 0 /\ scaleNo = 0) =>
       /\ determineDiatonicTriadForDegree(State, 0) = CHORD_TRIAD
       /\ determineDiatonicTriadForDegree(State, 1) = CHORD_MINOR_TRIAD

\* the press of an assign trigger on degree 6 of C major classified the
\* triad as diminished
C15_Witness ==
  /\ dispatched = [ch |-> AssignChannel, ev |-> "onPressStart", act |-> "ASSIGN_TRIGGER"]
  /\ fundamental = 0
  /\ scaleNo = 0
  /\ assignSlots[AssignChannel] = 6
  /\ ThirdAbove(6) = 3
  /\ ThirdAbove(8) = 3
  /\ currentChord.type = CHORD_DIMINISHED

\* the step dispatched the press of the assign trigger of channel i, which
\* was not latched
AssignPress(i) ==
  /\ dispatched' = [ch |-> i, ev |-> "onPressStart", act |-> "ASSIGN_TRIGGER"]
  /\ ~enc[i].isActive

\* C16: in the assign sub-mode the press of an assign trigger selects the
\* degree d of its slot and produces the chord whose tones are exactly the
\* pitch classes of scale degrees d, d+2 and d+4 of the current scale,
\* whatever chord type was selected before.
C16_AssignPressIsDiatonic ==
  [][\A i \in 0 .. 6 :
       AssignPress(i) =>
         LET d == assignSlots'[i]
         IN /\ chordSubMode = "CHORD_ASSIGN"
            /\ currentChordDegree' = d
            /\ currentChord'.noteCount = 3
            /\ currentChord'.notes =
                 <<DegreePitchClass(d), DegreePitchClass(d + 2), DegreePitchClass(d + 4)>>]_vars

\* the trigger on degree 4 of B harmonic minor produced the major triad
\* F#, A#, C# and sent it
C16_Witness ==
  /\ dispatched = [ch |-> AssignChannel, ev |-> "onPressStart", act |-> "ASSIGN_TRIGGER"]
  /\ fundamental = NUM_KEYS - 1
  /\ scaleNo = 3
  /\ assignSlots[AssignChannel] = 4
  /\ currentChord.type = CHORD_TRIAD
  /\ currentChord.notes = <<6, 10, 1>>
  /\ Len(midiOut) = 3
  /\ \A k \in 1 .. 3 : midiOut[k].t = "on"

SeventhTypes == {CHORD_SEVENTH, CHORD_MINOR_SEVENTH, CHORD_DIMINISHED_SEVENTH}

\* the semitones from the chord root up to the seventh of a seventh chord
SeventhAbove(type) ==
  CASE type = CHORD_SEVENTH -> 11
    [] type = CHORD_MINOR_SEVENTH -> 10
    [] OTHER -> 9

\* C17 (as stated): the fourth tone of every seventh chord is the pitch
\* class of scale degree d+6 of the current scale.
C17_SeventhFromScale ==
  currentChord.type \in SeventhTypes =>
    /\ currentChord.noteCount = 4
    /\ currentChord.notes[4] = DegreePitchClass(currentChordDegree + 6)

\* C17 (amended): the fourth tone of every seventh chord is the chord root,
\* the pitch class of scale degree d, raised by the fixed interval of the
\* selected type (11, 10 or 9 semitones); it is the pitch class of scale
\* degree d+6 exactly when the scale step from degree d+6 up to degree d is
\* the rest of the octave (1, 2 or 3 semitones).
C17_SeventhFromType ==
  currentChord.type \in SeventhTypes =>
    LET d == currentChordDegree
        up == SeventhAbove(currentChord.type)
    IN /\ currentChord.noteCount = 4
       /\ currentChord.notes[4] = (DegreePitchClass(d) + up) % 12
       /\ currentChord.notes[4] = DegreePitchClass(d + 6)
            <=> scaleIntervals[(d + 6) % 7] = 12 - up

\* the degree knob went from degree 0 to 1 in C major with the major
\* seventh type selected: D, F#, A, C#, although the scale has C
C17_Witness ==
  /\ fundamental = 0
  /\ scaleNo = 0
  /\ currentChord.type = CHORD_SEVENTH
  /\ currentChordDegree = 1
  /\ lastEncoder0Value = INITIAL_ENCODER_VALUE + 2
  /\ chordStepAccumulator = 0
  /\ currentChord.notes = <<2, 6, 9, 1>>
  /\ DegreePitchClass(currentChordDegree + 6) = 0

\* the step fired a change of the chord type knob (encoder 1)
TypeKnobFired ==
  /\ IterationOf(1)
  /\ currentMode = "CHORD_STATE"
  /\ chordSubMode = "CHORD_NORMAL"
  /\ lastEncoder1Value' # lastEncoder1Value
  /\ typeStepAccumulator # 0
  /\ typeStepAccumulator' = 0

\* C18 (as stated): the chord type changes only in a step in which the chord
\* type knob fired a change; every other step, whatever it recomputes,
\* leaves the type as it was.
C18_TypeOnlyByTypeKnob ==
  [][currentChord'.type # currentChord.type => TypeKnobFired]_vars

\* C18 (amended): a recomputation of the chord after a change of root,
\* scale or degree by a knob keeps the chord type; the type changes only in
\* a step in which the chord type knob fired a change, or in which an
\* unlatched assign trigger was pressed, and the press sets it to the
\* diatonic triad type of the degree of its slot.
C18_TypePreserved ==
  [][/\ currentChord'.type # currentChord.type =>
          TypeKnobFired \/ \E i \in 0 .. 6 : AssignPress(i)
     /\ \A i \in 0 .. 6 :
          AssignPress(i) =>
            currentChord'.type = determineDiatonicTriadForDegree(State, assignSlots'[i])
     /\ (fundamental' # fundamental \/ scaleNo' # scaleNo) =>
          /\ currentChord'.type = currentChord.type
          /\ currentChord'.rootNote = getScaleNote(fundamental', scaleNo', currentChordDegree) % 12
    ]_vars

\* the assign trigger on degree 1 of C major replaced the major triad type
\* by the minor triad type, with no turn of the chord type knob
C18_Witness ==
  /\ dispatched = [ch |-> AssignChannel, ev |-> "onPressStart", act |-> "ASSIGN_TRIGGER"]
  /\ fundamental = 0
  /\ scaleNo = 0
  /\ assignSlots[AssignChannel] = 1
  /\ currentChordDegree = 1
  /\ currentChord.type = CHORD_MINOR_TRIAD
  /\ lastEncoder1Value = INITIAL_ENCODER_VALUE
  /\ presses = 1

\* ------------------------------------------------------------ keys and rows
Keys == 0 .. (NUM_KEYS - 1)
ScalePitchClasses == {DegreePitchClass(d) : d \in 0 .. 6}

\* C19: in every reachable state exactly one key is marked fundamental and
\* it is the key of the current root; the seven scale-degree pitch classes
\* are pairwise distinct; exactly those seven keys are marked in-scale; and
\* the fundamental key is in-scale.
C19_ScaleStateInvariant ==
  /\ Cardinality({k \in Keys : key[k].isFundamental}) = 1
  /\ key[fundamental].isFundamental
  /\ Cardinality(ScalePitchClasses) = 7
  /\ \A k \in Keys : key[k].inScale <=> k \in ScalePitchClasses
  /\ key[fundamental].inScale

\* two raw steps up from the dial position of scale 8 wrapped the scale to
\* major, under root F: the keys of F major are marked
C19_Witness ==
  /\ encoder7Mode = "MODE_SCALE"
  /\ scaleNo = 0
  /\ fundamental = 5
  /\ lastEncoderValues[7] = Dial7(MAX_SCALE_NO, fundamental, currentOctave) + 2
  /\ {k \in Keys : key[k].inScale} = {0, 2, 4, 5, 7, 9, 10}
  /\ {k \in Keys : key[k].isFundamental} = {5}

\* C20: in every reachable state the CHORD row of the dispatch table is the
\* assign map exactly when the chord sub-mode is Assign and the default
\* chord map otherwise, and the SCALE row is the default scale map; every
\* button event is dispatched to the entry of its channel in the row of the
\* mode of that pass, which is one of the three whole maps.
C20_DispatchRowMatchesMode ==
  /\ [](/\ actionMap.CHORD_STATE =
            IF chordSubMode = "CHORD_ASSIGN" THEN kChordAssignMap ELSE kDefaultChordMap
        /\ actionMap.SCALE_STATE = kDefaultScaleMap)
  /\ [][dispatched'.ch \in Channels =>
          /\ dispatched'.act = actionMap[currentMode][dispatched'.ch]
          /\ actionMap[currentMode] \in {kDefaultScaleMap, kDefaultChordMap, kChordAssignMap}
       ]_vars

\* the hold of control 7 switched to the assign sub-mode and a button event
\* was then dispatched through the assign row
C20_Witness ==
  /\ chordSubMode = "CHORD_ASSIGN"
  /\ currentMode = "CHORD_STATE"
  /\ actionMap.CHORD_STATE = kChordAssignMap
  /\ dispatched = [ch |-> 0, ev |-> "onPressStart", act |-> "ASSIGN_TRIGGER"]
  /\ scenario.buttons = {0, 7}

\* ------------------------------------------------------------ mode swaps
\* the button state of all channels in program state s
ButtonState(s) ==
  [enc |-> s.enc, waitingForNextPress |-> s.waitingForNextPress,
   buttonHoldProcessed |-> s.buttonHoldProcessed, pressAge |-> s.pressAge]

\* C21: the switch change and the toggle of the chord sub-mode, applied in
\* any reachable state, leave isActive, shortPress, waitingForNextPress,
\* the hold-processed flag and the press start time of every channel as
\* they are; and a pass of loop() that sees the switch changed, without a
\* touch panic, begins with every channel's flags unchanged.
C21_SwapKeepsButtonState ==
  /\ [](/\ \A level \in BOOLEAN :
             ButtonState(SwitchChange(State, level)) = ButtonState(State)
        /\ ButtonState(ToggleChordSubMode(State)) = ButtonState(State)
        /\ ButtonState(applyChordSubModeMapping(State)) = ButtonState(State))
  /\ [][(lastSwitchState' # lastSwitchState /\ ~PanicInvoked) =>
          /\ enc' = enc
          /\ waitingForNextPress' = waitingForNextPress
          /\ buttonHoldProcessed' = buttonHoldProcessed]_vars

\* a note key latched in SCALE mode is still latched after the switch went
\* to CHORD, where its channel is mapped to no action
C21_Witness ==
  /\ currentMode = "CHORD_STATE"
  /\ lastSwitchState
  /\ Latched(2)
  /\ ActionOf(2) = "NOOP"
  /\ loopIdx # NUM_ENCODERS
  /\ dispatched = NoDispatch

\* ------------------------------------------------------------ faults
\* the read of encoder i failed in this step
ReadFaultOf(i) == loopIdx = i /\ errorCount' > errorCount

\* the recovery failed in this step and loop() returned
TickAbandoned == \E i \in Channels : ReadFaultOf(i) /\ errorCount' > MAX_ERRORS

\* C22: a failed read of encoder i (with or without a failed recovery)
\* freezes only channel i for that pass: the pass goes on with the next
\* encoder, so no other channel misses its update.
C22_FaultIsolated ==
  [][\A i \in Channels :
       ReadFaultOf(i) =>
         /\ loopIdx' = NextOperated(i + 1)
         /\ lastEncoderValues'[i] = lastEncoderValues[i]
         /\ buttonWasPressed'[i] = buttonWasPressed[i]
         /\ enc'[i] = enc[i]]_vars

\* C23: when the recovery of the bus fails and the pass is given up while a
\* note is latched on, the panic path has run first: the all-notes-off
\* burst was sent and every channel is Released.
C23_PanicBeforeAbandon ==
  [][(TickAbandoned /\ \E i \in Channels : Latched(i)) =>
       /\ midiOut' = PanicOutput
       /\ \A i \in Channels : Released(i)' /\ ~waitingForNextPress'[i]]_vars

\* ------------------------------------------------------------ debouncing
\* the counter of encoder i read in this step differs from the sample of
\* the pass before, so the last samples of that counter do not agree and
\* the reading is not stable
UnstableReading(i) == IterationOf(i) /\ turns' = turns + 1

\* C24: a raw counter reading that is not stable (the last samples do not
\* agree) changes none of the values derived from the counter: the value
\* the steps are taken from, the step accumulators, the velocities and
\* the edited parameters stay as they are.
C24_UnstableReadingIgnored ==
  [][\A i \in Channels :
       UnstableReading(i) =>
         /\ lastEncoderValues' = lastEncoderValues
         /\ encoder8LastValue' = encoder8LastValue
         /\ stepAccumulator' = stepAccumulator
         /\ chordStepAccumulator' = chordStepAccumulator
         /\ typeStepAccumulator' = typeStepAccumulator
         /\ encoderVelocity' = encoderVelocity
         /\ <<scaleNo', fundamental', currentOctave'>> =
              <<scaleNo, fundamental, currentOctave>>]_vars

\* ------------------------------------------------------------ MIDI sink
\* C25: while the BLE link is down no message is emitted: whatever the
\* last step was (button action, rotation, touch panic or the disconnect
\* itself), its output is empty; and an octave change applied in
\* that state, also with channel 6 latched in CHORD mode, revoices nothing.
C25_SilentWhenDisconnected ==
  ~bleMidiConnected =>
    /\ midiOut = <<>>
    /\ \A change \in {-1, 1} : OctaveChange(Fresh(State), change).midiOut = <<>>

\* the chord trigger was pressed in CHORD mode with the link down
C25_Witness ==
  /\ ~bleMidiConnected
  /\ dispatched = [ch |-> 0, ev |-> "onPressStart", act |-> "CHORD_TRIGGER"]
  /\ midiOut = <<>>

\* ------------------------------------------------------------ velocity
\* C26: a changed counter of encoder i (0..6) sets, with the switch off,
\* velocity[i] to (position * 127) / 60 limited to 0..127 and leaves the
\* other velocities alone; with the switch on it leaves all velocities
\* alone; every velocity is in 0..127 at all times.
C26_VelocityRouting ==
  /\ [](\A i \in 0 .. 6 : encoderVelocity[i] \in 0 .. 127)
  /\ [][\A i \in 0 .. 6 :
          (IterationOf(i) /\ lastEncoderValues'[i] # lastEncoderValues[i]) =>
            LET position == lastEncoderValues'[i]
                mapped == TruncDiv(position * 127, 60)
                vel == IF mapped < 0 THEN 0 ELSE IF mapped > 127 THEN 127 ELSE mapped
            IN IF lastSwitchState
               THEN encoderVelocity' = encoderVelocity
               ELSE encoderVelocity' = [encoderVelocity EXCEPT ![i] = vel]]_vars

\* knob 0 was turned down into the lower limit with the switch off, while
\* channel 6 kept the velocity it was dialled to
C26_Witness ==
  /\ ~lastSwitchState
  /\ turns > 0
  /\ lastEncoderValues[0] = -2
  /\ encoderVelocity[0] = 0
  /\ lastEncoderValues[6] = 30
  /\ encoderVelocity[6] = 63

\* ------------------------------------------------------------ revoicing
\* C27: a step that changes the octave while a chord is latched and
\* sounding sends the noteOffs of the chord voiced in the previous octave,
\* then the noteOns of the chord voiced in the new octave, and nothing else.
C27_OctaveRevoicing ==
  [][(ChordLatchedSounding /\ currentOctave' # currentOctave) =>
       LET offs == ChordOffBatch(currentChord, currentOctave)
           n == Min(currentChord'.noteCount, MAX_CHORD_NOTES)
       IN /\ Len(midiOut') = Len(offs) + n
          /\ SubSeq(midiOut', 1, Len(offs)) = offs
          /\ \A k \in 1 .. n :
               /\ midiOut'[Len(offs) + k].t = "on"
               /\ midiOut'[Len(offs) + k].n =
                    midiInOctave(currentChord'.notes[k], currentOctave')]_vars

\* ------------------------------------------------------------ chord degree
\* the degree knob (encoder 0, CHORD_NORMAL) fires the change c in this step
DegreeFired(c) ==
  /\ IterationOf(0)
  /\ currentMode = "CHORD_STATE"
  /\ chordSubMode = "CHORD_NORMAL"
  /\ lastEncoder0Value' # lastEncoder0Value
  /\ chordStepAccumulator + Sign(lastEncoder0Value', lastEncoder0Value) = 2 * c

CycleStep(m) ==
  CASE m = "MODE_DEFAULT" -> "MODE_SCALE"
    [] m = "MODE_SCALE" -> "MODE_ROOT"
    [] m = "MODE_ROOT" -> "MODE_OCTAVE"
    [] m = "MODE_OCTAVE" -> "MODE_DEFAULT"

C30_HoldTogglesOnce ==
  /\ [][(ReleaseEdge(7) /\ currentMode = "CHORD_STATE"
          /\ pressAge[7] >= BUTTON_HOLD_TIME) =>
         (holdToggles' = 1 /\ encoder7Mode' = encoder7Mode)]_vars
  /\ [][(IterationOf(7) /\ currentMode = "SCALE_STATE" /\ buttonWasPressed[7]
          /\ pressAge[7] >= BUTTON_HOLD_TIME) =>
         (chordSubMode' = chordSubMode /\ encoder7Mode' = encoder7Mode)]_vars

\* C30 amended: an iteration that finds control 7 down since the hold time
\* or longer toggles the chord sub-mode exactly when the mode is CHORD and
\* the press is not yet marked as handled (by an earlier hold or by a
\* panic); a toggle made while the button stays down marks the press, so
\* that no press toggles more than once, on later passes or on release;
\* such an iteration never cycles the edit sub-mode, and in SCALE mode it
\* changes neither sub-mode.
C30_HoldTogglesAtMostOnce ==
  /\ [](holdToggles \in {0, 1})
  /\ [][(IterationOf(7) /\ buttonWasPressed[7]) =>
          /\ (chordSubMode' # chordSubMode) <=>
               /\ currentMode = "CHORD_STATE"
               /\ ~buttonHoldProcessed[7]
               /\ pressAge[7] >= BUTTON_HOLD_TIME
          /\ (chordSubMode' # chordSubMode /\ buttonWasPressed'[7]) =>
               buttonHoldProcessed'[7]
          /\ pressAge[7] >= BUTTON_HOLD_TIME => encoder7Mode' = encoder7Mode]_vars

\* a later pass of a press of control 7 whose hold toggled the sub-mode to
\* CHORD_ASSIGN: the button is still down and nothing was dispatched
C30_Witness ==
  /\ currentMode = "CHORD_STATE"
  /\ buttonWasPressed[7]
  /\ pressAge[7] >= BUTTON_HOLD_TIME
  /\ holdToggles = 1
  /\ chordSubMode = "CHORD_ASSIGN"
  /\ encoder7Mode = "MODE_DEFAULT"
  /\ dispatched = NoDispatch
  /\ loopIdx = NUM_ENCODERS

\* ------------------------------------------------------------ latch flags
\* C31: in every state and for every channel, waitingForNextPress is set
\* exactly when the channel is Latched.
C31_WaitingIffLatched ==
  \A i \in Channels : waitingForNextPress[i] = enc[i].isActive

\* channel 2 was Latched by a hold and its next press has just removed the
\* latch: it waits no longer
C31_Witness ==
  /\ dispatched = [ch |-> 2, ev |-> "onPressWhileLatched", act |-> "NOTE_KEY"]
  /\ presses = 2
  /\ ~enc[2].isActive
  /\ ~waitingForNextPress[2]

\* ------------------------------------------------------------ assign slots
\* the knob of slot i (CHORD_ASSIGN) fires the change c in this step
SlotFired(i, c) ==
  /\ IterationOf(i)
  /\ currentMode = "CHORD_STATE"
  /\ chordSubMode = "CHORD_ASSIGN"
  /\ lastAssignVal'[i] # lastAssignVal[i]
  /\ acc[i] + Sign(lastAssignVal'[i], lastAssignVal[i]) = 2 * c

\* C32: a step that enters CHORD_ASSIGN binds slot i to degree i for all
\* seven slots; in CHORD_ASSIGN a fired change on encoder i moves the
\* degree of slot i by the change modulo 7 and leaves the other slots, the
\* current chord and the sounding notes as they are (nothing is sent).
C32_AssignSlots ==
  /\ [][(chordSubMode = "CHORD_NORMAL" /\ chordSubMode' = "CHORD_ASSIGN") =>
          assignSlots' = [i \in 0 .. 6 |-> i]]_vars
  /\ [][\A i \in 0 .. 6, c \in {-1, 1} :
          SlotFired(i, c) =>
            /\ assignSlots' = [assignSlots EXCEPT ![i] = (@ + c) % 7]
            /\ currentChord' = currentChord
            /\ currentChordDegree' = currentChordDegree
            /\ chordPlaying' = chordPlaying
            /\ midiOut' = <<>>]_vars

\* CHORD_ASSIGN was entered by the hold of the mode button and the knob of
\* slot 0 was then turned down: its degree wrapped to 6, the others are
\* still bound to their own index
C32_Witness ==
  /\ chordSubMode = "CHORD_ASSIGN"
  /\ holdToggles = 1
  /\ assignSlots = [i \in 0 .. 6 |-> IF i = 0 THEN 6 ELSE i]
  /\ acc[0] = 0
  /\ turns >= 2

\* ------------------------------------------------------------ routing
\* C33: with the switch off no step changes the scale index, the root or
\* the octave.
C33_SwitchOffKeepsParameters ==
  [][~lastSwitchState =>
       <<scaleNo', fundamental', currentOctave'>> =
         <<scaleNo, fundamental, currentOctave>>]_vars

\* ------------------------------------------------------------ note pairing
\* C34: the noteOff a NOTE_KEY channel sends at its short release or at its
\* unlatch has the pitch of the noteOn sent at that press's start.
C34_NoteOffMatchesNoteOn ==
  [][\A i \in 0 .. 6 :
       (/\ dispatched'.ch = i
        /\ dispatched'.act = "NOTE_KEY"
        /\ dispatched'.ev \in {"onReleaseShort", "onPressWhileLatched"}
        /\ noteOnPitch[i] # NoPitch) =>
         \A p \in 1 .. Len(midiOut') :
           midiOut'[p].t = "off" => midiOut'[p].n = noteOnPitch[i]]_vars

\* ------------------------------------------------------------ chord flag
\* C35: whenever chordPlaying is set, some channel is PressedWaitingHold or
\* Latched.
C35_ChordPlayingHasHolder ==
  chordPlaying => \E i \in Channels : PressedWaitingHold(i) \/ Latched(i)

\* ------------------------------------------------------------ BLE link
\* A further specification operates button and knob 0 (a note key and its
\* velocity with the switch off, the chord trigger and the chord degree with
\* the switch on) and the touch panel while the BLE link comes and goes.
LinkInit ==
  /\ \E up \in BOOLEAN : Commit_Init([SetupState EXCEPT !.bleMidiConnected = up])
  /\ loopIdx = NUM_ENCODERS
  /\ presses = 0
  /\ turns = 0
  /\ \E level \in BOOLEAN :
       scenario = [buttons |-> {0}, knobs |-> {0}, touch |-> TRUE, fast |-> FALSE,
                   switch |-> {level}, link |-> TRUE, faulty |-> {}]
  /\ errorCount = 0
  /\ holdToggles = 0
  /\ noteOnPitch = [i \in 0 .. 6 |-> NoPitch]

LinkNext == LoopBegin \/ LoopIteration \/ OnMidiConnected \/ OnMidiDisconnected

LinkSpec == LinkInit /\ [][LinkNext]_vars

\* program state s with the BLE link and the chord flag set as given
WithLink(s, up, playing) ==
  [s EXCEPT !.bleMidiConnected = up, !.chordPlaying = playing]

\* program state s without what the BLE link decides: the link flag itself,
\* the chord flag (set only when a chord is sent) and the MIDI output
LinkView(s) == [WithLink(s, FALSE, FALSE) EXCEPT !.midiOut = <<>>]

\* the program states the next step of loop() can produce from state s
StepResults(s) ==
  IF loopIdx = NUM_ENCODERS
  THEN [in \in TickSteps \X TouchLevels \X SwitchLevels |->
          IdleIterations(SwitchChange(TouchPanic(AdvanceTime(Fresh(s), in[1]), in[2]),
                                      in[3]), 0)]
  ELSE [in \in ButtonLevels(loopIdx) \X CounterValues(loopIdx) |->
          IdleIterations(LoopBody(Fresh(s), loopIdx, in[2], in[1]), loopIdx + 1)]

\* C36: in every reachable state and for every input of the next step of
\* loop(), the step made with the BLE link up or down (and the chord flag,
\* which only the link decides, set or not) ends with the same button state
\* of every channel, and with the same program state apart from the link
\* flag, the chord flag and the MIDI output; so two runs with the same
\* inputs and different connect/disconnect events keep the same button
\* state after every tick.
C36_ConnectionIndependence ==
  LET here == StepResults(State)
  IN \A up \in BOOLEAN, playing \in BOOLEAN :
       LET there == StepResults(WithLink(State, up, playing))
       IN \A in \in DOMAIN here :
            /\ ButtonState(there[in]) = ButtonState(here[in])
            /\ LinkView(there[in]) = LinkView(here[in])

\* a chord trigger was pressed in chord mode while the link was down, and
\* its press was started all the same
C36_Witness ==
  /\ ~bleMidiConnected
  /\ dispatched = [ch |-> 0, ev |-> "onPressStart", act |-> "CHORD_TRIGGER"]
  /\ PressedWaitingHold(0)
  /\ midiOut = <<>>

\* ------------------------------------------------------------ routed steps
\* C37: the accumulator of the chord degree (encoder 0), of the chord type
\* (encoder 1) and of every assign slot changes only in a pass of loop() in
\* which the counter of its encoder was turned: a pass without a turn of the
\* encoder, such as the first pass after a mode change, adds no step.
C37_OnlyRoutedTurnsCount ==
  [][/\ chordStepAccumulator' # chordStepAccumulator =>
          lastEncoderValues'[0] # lastEncoderValues[0]
     /\ typeStepAccumulator' # typeStepAccumulator =>
          lastEncoderValues'[1] # lastEncoderValues[1]
     /\ \A i \in 0 .. 6 :
          acc'[i] # acc[i] => lastEncoderValues'[i] # lastEncoderValues[i]]_vars

\* ------------------------------------------------------------ chord structure
\* C38: in every reachable state the current chord has 3 or 4 notes, every
\* note is a pitch class in 0..11, the notes are pairwise distinct, the first
\* note is rootNote, and rootNote is the pitch class of the scale note at the
\* current chord degree.
C38_ChordStructure ==
  /\ currentChord.noteCount \in {3, 4}
  /\ currentChord.noteCount <= MAX_CHORD_NOTES
  /\ DOMAIN currentChord.notes = 1 .. currentChord.noteCount
  /\ \A k \in 1 .. currentChord.noteCount : currentChord.notes[k] \in 0 .. 11
  /\ \A j, k \in 1 .. currentChord.noteCount :
       j # k => currentChord.notes[j] # currentChord.notes[k]
  /\ currentChord.notes[1] = currentChord.rootNote
  /\ currentChord.rootNote = getScaleNote(fundamental, scaleNo, currentChordDegree) % 12

\* a knob was turned and the current chord is a four-note chord on a degree
\* above the first whose seventh wraps below its root
C38_Witness ==
  /\ turns > 0
  /\ currentChordDegree > 0
  /\ currentChord.noteCount = 4
  /\ currentChord.notes[4] < currentChord.rootNote
  /\ currentChord.rootNote = getScaleNote(fundamental, scaleNo, currentChordDegree) % 12

====
